---------------------------- MODULE Spec2Model ----------------------------
(***************************************************************************)
(* ZKMTD: epoch-rotating (Moving Target Defense) proof envelopes.          *)
(*                                                                         *)
(* The module models                                                       *)
(*   - the Poseidon2 sponge hash of utils/hash.rs as an ideal permutation  *)
(*     applied to the field elements the code really absorbs,              *)
(*   - WarpingParams::generate and the MTDManager state machine,           *)
(*   - the integrated envelope (IntegratedProver / IntegratedVerifier /    *)
(*     IntegratedProof),                                                   *)
(*   - the simulation prover / verifier, the Merkle tree and the batch     *)
(*     verifier.                                                           *)
(*                                                                         *)
(* Byte strings.  A byte string is a sequence of items.  An item is        *)
(*   <<b>>              a concrete byte b in 0..255, or                    *)
(*   <<T, from, to, x>> bytes from..to (0-based) of the 32-byte output of  *)
(*                      the sponge on absorbed input T, each xor-ed with x *)
(* where T = <<domain fields, number of rate blocks, message fields>>.     *)
(* Two sponge outputs are equal exactly when the absorbed field elements   *)
(* are equal (the permutation is taken to be collision free); everything   *)
(* in front of the permutation (chunking, zero padding, reduction modulo   *)
(* the Goldilocks prime) is computed as the code computes it.              *)
(* A u64 that is only stored, hashed and compared (a public value, a       *)
(* witness cell) is its 8 little-endian bytes; an epoch is a natural       *)
(* number because the code does arithmetic on it.                          *)
(***************************************************************************)
EXTENDS Integers, Sequences, FiniteSets, TLC

VARIABLES mgr, last, env, ver, batch
vars == <<mgr, last, env, ver, batch>>

-----------------------------------------------------------------------------
(* Bounds of the model *)

\* stand-in for u64::MAX in epoch arithmetic (the real value is 2^64 - 1)
U64_MAX == 19

\* the epoch get_params is asked for besides the current and the cached ones
ProbeEpoch == 2

\* how far ahead of the current epoch the wall clock can be read
ClockAhead == 2

-----------------------------------------------------------------------------
(* Program constants *)

MTD_PARAM_CACHE_SIZE == 16

MAX_EPOCH == U64_MAX - 1

-----------------------------------------------------------------------------
(* Byte strings *)

B(s) == [i \in 1..Len(s) |-> <<s[i]>>]

IsByte(it) == Len(it) = 1

ItemLen(it) == IF Len(it) = 1 THEN 1 ELSE it[3] - it[2] + 1

\* the bytes the items of d at the indices in S hold beyond one each
RECURSIVE ExtraLen(_, _)
ExtraLen(d, S) ==
    IF S = {} THEN 0
    ELSE LET i == CHOOSE j \in S : TRUE
         IN  ItemLen(d[i]) - 1 + ExtraLen(d, S \ {i})

\* <[u8]>::len
ByteLen(d) == Len(d) + ExtraLen(d, {i \in 1..Len(d) : Len(d[i]) = 4})

\* two adjacent items that are consecutive bytes of the same sponge output
Mergeable(a, b) ==
    /\ Len(a) = 4
    /\ Len(b) = 4
    /\ a[1] = b[1]
    /\ a[4] = b[4]
    /\ a[3] + 1 = b[2]

\* concatenation (Vec::extend_from_slice), keeping runs of one output merged
Cat(a, b) ==
    IF Len(a) = 0 THEN b
    ELSE IF Len(b) = 0 THEN a
    ELSE IF Mergeable(a[Len(a)], b[1])
         THEN SubSeq(a, 1, Len(a) - 1)
              \o << <<a[Len(a)][1], a[Len(a)][2], b[1][3], b[1][4]>> >>
              \o Tail(b)
         ELSE a \o b

\* the first n bytes of d (all of d if it is shorter)
RECURSIVE TakeItems(_, _)
TakeItems(d, n) ==
    IF n <= 0 \/ Len(d) = 0 THEN <<>>
    ELSE LET h == Head(d)
             l == ItemLen(h)
         IN  IF l <= n THEN <<h>> \o TakeItems(Tail(d), n - l)
             ELSE << <<h[1], h[2], h[2] + n - 1, h[4]>> >>

Take(d, n) == IF Len(d) <= n /\ ByteLen(d) <= n THEN d ELSE TakeItems(d, n)

RECURSIVE Drop(_, _)
Drop(d, n) ==
    IF n <= 0 \/ Len(d) = 0 THEN d
    ELSE LET h == Head(d)
             l == ItemLen(h)
         IN  IF l <= n THEN Drop(Tail(d), n - l)
             ELSE << <<h[1], h[2] + n, h[3], h[4]>> >> \o Tail(d)

\* data[a..b]
Slice(d, a, b) == Take(Drop(d, a), b - a)

Zeros(n) == [i \in 1..n |-> <<0>>]

\* d without its trailing zero bytes
StripZeros(d) ==
    IF Len(d) = 0 \/ d[Len(d)] # <<0>> THEN d
    ELSE IF \A i \in 1..Len(d) : d[i] = <<0>> THEN <<>>
    ELSE SubSeq(d, 1, CHOOSE k \in 1..Len(d) :
                          /\ d[k] # <<0>>
                          /\ \A i \in (k + 1)..Len(d) : d[i] = <<0>>)

AllZero(d) == \A i \in 1..Len(d) : d[i] = <<0>>

RECURSIVE le_bytes(_, _)
le_bytes(n, k) ==
    IF k = 0 THEN <<>> ELSE <<n % 256>> \o le_bytes(n \div 256, k - 1)

\* u64::to_le_bytes and u32::to_le_bytes of a natural number
to_le_bytes(n, k) == B(le_bytes(n, k))

-----------------------------------------------------------------------------
(* utils/hash.rs *)

\* x - 1 on a 4-byte little-endian number x > 0
Dec4(lo) ==
    IF lo[1] > 0 THEN <<lo[1] - 1, lo[2], lo[3], lo[4]>>
    ELSE IF lo[2] > 0 THEN <<255, lo[2] - 1, lo[3], lo[4]>>
    ELSE IF lo[3] > 0 THEN <<255, 255, lo[3] - 1, lo[4]>>
    ELSE <<255, 255, 255, lo[4] - 1>>

\* v % ORDER_U64 on the 8 little-endian bytes of v, ORDER = 2^64 - 2^32 + 1:
\* v >= ORDER iff the high half is 0xFFFFFFFF and the low half is not 0,
\* and then v - ORDER = low half - 1
ModOrder(v) ==
    LET lo == SubSeq(v, 1, 4)
        hi == SubSeq(v, 5, 8)
    IN  IF hi = <<255, 255, 255, 255>> /\ lo # <<0, 0, 0, 0>>
        THEN Dec4(lo) \o <<0, 0, 0, 0>>
        ELSE v

\* the field element of a chunk of at most 8 bytes, as its 8 canonical bytes
bytes_to_field(chunk) ==
    LET c == Take(chunk, 8)
        p == Cat(c, Zeros(8 - ByteLen(c)))
    IN  IF \A i \in 1..Len(p) : IsByte(p[i])
        THEN B(ModOrder([i \in 1..8 |-> p[i][1]]))
        ELSE p

\* bytes.chunks(8).map(bytes_to_field)
RECURSIVE bytes_to_fields(_)
bytes_to_fields(d) ==
    IF Len(d) = 0 THEN <<>>
    ELSE Cat(bytes_to_field(Take(d, 8)), bytes_to_fields(Drop(d, 8)))

\* The cells bytes_to_field makes of d, without the trailing zero cells.  The
\* reduction changes a chunk only if its four high bytes are 0xFF, so a string
\* without a 0xFF byte is absorbed as it is.
Cells(d) ==
    IF \E i \in 1..Len(d) : d[i] = <<255>>
    THEN StripZeros(bytes_to_fields(d))
    ELSE StripZeros(d)

\* Absorbed input of the sponge: the domain fills the first RATE = 8 cells
\* (missing cells stay 0), then every 64-byte block of the data is added
\* into the rate cells (missing cells add 0) and permuted.  Trailing zero
\* cells are dropped and the number of blocks is kept, which identifies the
\* zero-padded blocks.
Absorbed(data, domain) ==
    << Cells(Take(domain, 64)),
       (ByteLen(data) + 63) \div 64,
       Cells(data) >>

poseidon_hash(data, domain) == << <<Absorbed(data, domain), 0, 31, 0>> >>

constant_time_eq_fixed(a, b) == a = b

constant_time_eq(a, b) == a = b

-----------------------------------------------------------------------------
(* utils/constants.rs *)

\* b"ZKMTD-v1-system-salt-2024"
SYSTEM_SALT ==
    B(<<90, 75, 77, 84, 68, 45, 118, 49, 45, 115, 121, 115, 116, 101, 109, 45,
        115, 97, 108, 116, 45, 50, 48, 50, 52>>)

\* b"ZKMTD::ProofGeneration"
DOMAIN_PROOF_GENERATION ==
    B(<<90, 75, 77, 84, 68, 58, 58, 80, 114, 111, 111, 102, 71, 101, 110, 101,
        114, 97, 116, 105, 111, 110>>)

\* b"ZKMTD::ProofVerification"
DOMAIN_PROOF_VERIFICATION ==
    B(<<90, 75, 77, 84, 68, 58, 58, 80, 114, 111, 111, 102, 86, 101, 114, 105,
        102, 105, 99, 97, 116, 105, 111, 110>>)

\* b"ZKMTD::MTD::Parameters"
DOMAIN_MTD_PARAMS ==
    B(<<90, 75, 77, 84, 68, 58, 58, 77, 84, 68, 58, 58, 80, 97, 114, 97, 109,
        101, 116, 101, 114, 115>>)

\* b"ZKMTD::Merkle"
DOMAIN_MERKLE ==
    B(<<90, 75, 77, 84, 68, 58, 58, 77, 101, 114, 107, 108, 101>>)

\* b"ZKMTD::PV::Commit"
DOMAIN_PV_COMMIT ==
    B(<<90, 75, 77, 84, 68, 58, 58, 80, 86, 58, 58, 67, 111, 109, 109, 105,
        116>>)

\* b"ZKMTD_BINDING"
DOMAIN_BINDING ==
    B(<<90, 75, 77, 84, 68, 95, 66, 73, 78, 68, 73, 78, 71>>)

\* b"MTD_DOMAIN_SEP"
DOMAIN_MTD_DOMAIN_SEP ==
    B(<<77, 84, 68, 95, 68, 79, 77, 65, 73, 78, 95, 83, 69, 80>>)

\* b"MTD_SALT"
DOMAIN_MTD_SALT ==
    B(<<77, 84, 68, 95, 83, 65, 76, 84>>)

\* b"MTD_FRI_SEED"
DOMAIN_MTD_FRI_SEED ==
    B(<<77, 84, 68, 95, 70, 82, 73, 95, 83, 69, 69, 68>>)

\* b"PROOF_INTEGRITY"
DOMAIN_PROOF_INTEGRITY ==
    B(<<80, 82, 79, 79, 70, 95, 73, 78, 84, 69, 71, 82, 73, 84, 89>>)

-----------------------------------------------------------------------------
(* mtd/warping.rs *)

derive_mtd_params(seed, epoch, salt) ==
    poseidon_hash(Cat(Cat(seed, to_le_bytes(epoch, 8)), salt), DOMAIN_MTD_PARAMS)

\* WarpingParams::generate; the seed is never empty here (the constructors
\* of the manager refuse an empty seed), so generation does not fail
WarpingParams_generate(seed, epoch) ==
    LET base_params == derive_mtd_params(seed, epoch, SYSTEM_SALT)
    IN  [ epoch |-> epoch,
          domain_separator |->
              poseidon_hash(Cat(base_params, B(<<68, 79, 77, 65, 73, 78>>)),
                            DOMAIN_MTD_DOMAIN_SEP),
          salt |->
              poseidon_hash(Cat(base_params, B(<<83, 65, 76, 84>>)),
                            DOMAIN_MTD_SALT),
          fri_seed |->
              poseidon_hash(Cat(base_params, B(<<70, 82, 73>>)),
                            DOMAIN_MTD_FRI_SEED) ]

\* b"s" and b"t", the long-lived seeds of the model
Seed == B(<<115>>)

OtherSeed == B(<<116>>)

Seeds == {Seed, OtherSeed}

\* WarpingParams::generate of the model's seeds and epochs, computed once
GeneratedParams ==
    [s \in Seeds, e \in 0..(U64_MAX + 1) |-> WarpingParams_generate(s, e)]

\* WarpingParams::generate as the callers use it
generate(seed, epoch) ==
    IF <<seed, epoch>> \in DOMAIN GeneratedParams
    THEN GeneratedParams[seed, epoch]
    ELSE WarpingParams_generate(seed, epoch)

-----------------------------------------------------------------------------
(* mtd/epoch.rs *)

\* Epoch::next: the successor, or no epoch at all at MAX_EPOCH and above
Epoch_next(v) == IF v >= MAX_EPOCH THEN {} ELSE {v + 1}

-----------------------------------------------------------------------------
(* mtd/manager.rs: MTDManager *)

\* the epochs a manager is constructed at
InitEpochs == {0, 1}

\* MTDManager::new: the wall-clock epoch, auto_advance on
MTDManager_new(seed, clock) ==
    [ seed |-> seed,
      current_epoch |-> clock,
      current_params |-> generate(seed, clock),
      cache |-> <<>>,
      auto_advance |-> TRUE ]

\* MTDManager::with_epoch: the given epoch, auto_advance off
MTDManager_with_epoch(seed, epoch) ==
    [ seed |-> seed,
      current_epoch |-> epoch,
      current_params |-> generate(seed, epoch),
      cache |-> <<>>,
      auto_advance |-> FALSE ]

\* a cache that drops its newest entry at capacity
cache_push_newest(cache, params) ==
    IF Len(cache) >= MTD_PARAM_CACHE_SIZE
    THEN Append(SubSeq(cache, 1, Len(cache) - 1), params)
    ELSE Append(cache, params)

\* pop_front at capacity, then push_back
cache_push(cache, params) ==
    IF Len(cache) >= MTD_PARAM_CACHE_SIZE
    THEN Append(Tail(cache), params)
    ELSE Append(cache, params)

\* cache.iter().find(|p| p.epoch == epoch): the index of the first match, 0 if none
cache_find(cache, epoch) ==
    IF \E i \in 1..Len(cache) : cache[i].epoch = epoch
    THEN CHOOSE i \in 1..Len(cache) :
             /\ cache[i].epoch = epoch
             /\ \A j \in 1..(i - 1) : cache[j].epoch # epoch
    ELSE 0

\* a get_params that answers a cache miss with the current params
get_params_current_on_miss(m, epoch) ==
    IF epoch = m.current_epoch
    THEN [m |-> m, ret |-> m.current_params]
    ELSE IF cache_find(m.cache, epoch) # 0
    THEN [m |-> m, ret |-> m.cache[cache_find(m.cache, epoch)]]
    ELSE [m |-> m, ret |-> m.current_params]

\* MTDManager::get_params: [m |-> the manager afterwards, ret |-> the result]
get_params(m, epoch) ==
    IF epoch = m.current_epoch
    THEN [m |-> m, ret |-> m.current_params]
    ELSE IF cache_find(m.cache, epoch) # 0
    THEN [m |-> m, ret |-> m.cache[cache_find(m.cache, epoch)]]
    ELSE LET params == generate(m.seed, epoch)
         IN  [m |-> [m EXCEPT !.cache = cache_push(m.cache, params)],
              ret |-> params]

\* an advance that regenerates before it moves the epoch
advance_stale(m) ==
    IF Epoch_next(m.current_epoch) = {}
    THEN [m |-> m, ok |-> FALSE]
    ELSE LET next_epoch == CHOOSE e \in Epoch_next(m.current_epoch) : TRUE
         IN  [m |-> [m EXCEPT
                       !.cache = cache_push(m.cache, m.current_params),
                       !.current_epoch = next_epoch,
                       !.current_params = generate(m.seed, m.current_epoch)],
              ok |-> TRUE]

\* an advance that saves the current params before it asks for the next epoch
advance_saving_first(m) ==
    IF Epoch_next(m.current_epoch) = {}
    THEN [m |-> [m EXCEPT !.cache = cache_push(m.cache, m.current_params)],
          ok |-> FALSE]
    ELSE LET next_epoch == CHOOSE e \in Epoch_next(m.current_epoch) : TRUE
         IN  [m |-> [m EXCEPT
                       !.cache = cache_push(m.cache, m.current_params),
                       !.current_epoch = next_epoch,
                       !.current_params = generate(m.seed, next_epoch)],
              ok |-> TRUE]

\* MTDManager::advance: [m, ok]; ok is FALSE when Epoch::next fails
advance(m) ==
    IF Epoch_next(m.current_epoch) = {}
    THEN [m |-> m, ok |-> FALSE]
    ELSE LET next_epoch == CHOOSE e \in Epoch_next(m.current_epoch) : TRUE
         IN  [m |-> [m EXCEPT
                       !.cache = cache_push(m.cache, m.current_params),
                       !.current_epoch = next_epoch,
                       !.current_params = generate(m.seed, next_epoch)],
              ok |-> TRUE]

\* a sync that follows the wall clock in both directions
sync_following(m, system_epoch) ==
    IF ~m.auto_advance
    THEN [m |-> m, ok |-> TRUE, val |-> FALSE]
    ELSE IF system_epoch # m.current_epoch
    THEN [m |-> [m EXCEPT
                   !.current_epoch = system_epoch,
                   !.current_params = generate(m.seed, system_epoch),
                   !.cache = <<>>],
          ok |-> TRUE, val |-> TRUE]
    ELSE [m |-> m, ok |-> TRUE, val |-> FALSE]

\* a sync that jumps ahead and keeps the cache
sync_keeping_cache(m, system_epoch) ==
    IF ~m.auto_advance
    THEN [m |-> m, ok |-> TRUE, val |-> FALSE]
    ELSE IF system_epoch > m.current_epoch
    THEN [m |-> [m EXCEPT
                   !.current_epoch = system_epoch,
                   !.current_params = generate(m.seed, system_epoch)],
          ok |-> TRUE, val |-> TRUE]
    ELSE IF system_epoch < m.current_epoch
    THEN [m |-> m, ok |-> FALSE, val |-> FALSE]
    ELSE [m |-> m, ok |-> TRUE, val |-> FALSE]

\* MTDManager::sync with Epoch::current() = system_epoch: [m, ok, val]
sync(m, system_epoch) ==
    IF ~m.auto_advance
    THEN [m |-> m, ok |-> TRUE, val |-> FALSE]
    ELSE IF system_epoch > m.current_epoch
    THEN [m |-> [m EXCEPT
                   !.current_epoch = system_epoch,
                   !.current_params = generate(m.seed, system_epoch),
                   !.cache = <<>>],
          ok |-> TRUE, val |-> TRUE]
    ELSE IF system_epoch < m.current_epoch
    THEN [m |-> m, ok |-> FALSE, val |-> FALSE]
    ELSE [m |-> m, ok |-> TRUE, val |-> FALSE]

set_auto_advance(m, enabled) == [m EXCEPT !.auto_advance = enabled]

clear_cache(m) == [m EXCEPT !.cache = <<>>]

\* the epochs get_params is asked for: the current one (the O(1) path), the
\* oldest cached one (a hit) and one fixed epoch (a miss while it is not cached)
GetParamsInputs(m) ==
    {m.current_epoch, ProbeEpoch}
        \cup (IF Len(m.cache) > 0 THEN {m.cache[1].epoch} ELSE {})

\* the wall-clock epochs sync can read: behind, equal to and ahead of the
\* manager's epoch
ClockInputs(m) ==
    ((m.current_epoch - 1)..(m.current_epoch + ClockAhead)) \cap (0..MAX_EPOCH)

\* the last call as its caller sees it: the operation, its argument, Ok (ok)
\* or Err, the boolean and the value returned, and cache_stats().size before a call
\* that can insert into the cache
Outcome(op, arg, ok, val, ret, size) ==
    [op |-> op, arg |-> arg, ok |-> ok, val |-> val, ret |-> ret, size |-> size]

\* an Option that is None: Some(v) is <<v>>
NoEnv == <<>>

MgrInit ==
    /\ \/ \E e \in InitEpochs : mgr = MTDManager_new(Seed, e)
       \/ \E e \in InitEpochs : mgr = MTDManager_with_epoch(Seed, e)
    /\ last = Outcome("new", 0, TRUE, FALSE, 0, 0)
    /\ env = NoEnv
    /\ ver = NoEnv
    /\ batch = NoEnv

GetParams ==
    \E e \in GetParamsInputs(mgr) :
        /\ mgr' = get_params(mgr, e).m
        /\ last' = Outcome("get_params", e, TRUE, FALSE, get_params(mgr, e).ret,
                         Len(mgr.cache))
        /\ UNCHANGED <<env, ver, batch>>

Advance ==
    /\ mgr' = advance(mgr).m
    /\ last' = Outcome("advance", mgr.current_epoch, advance(mgr).ok, FALSE, 0,
                     Len(mgr.cache))
    /\ UNCHANGED <<env, ver, batch>>

Sync ==
    \E s \in ClockInputs(mgr) :
        /\ mgr' = sync(mgr, s).m
        /\ last' = Outcome("sync", s, sync(mgr, s).ok, sync(mgr, s).val, 0, 0)
        /\ UNCHANGED <<env, ver, batch>>

SetAutoAdvance ==
    \E b \in BOOLEAN :
        /\ mgr' = set_auto_advance(mgr, b)
        /\ last' = Outcome("set_auto_advance", 0, TRUE, b, 0, 0)
        /\ UNCHANGED <<env, ver, batch>>

ClearCache ==
    /\ mgr' = clear_cache(mgr)
    /\ last' = Outcome("clear_cache", 0, TRUE, FALSE, 0, 0)
    /\ UNCHANGED <<env, ver, batch>>

MgrNext ==
    \/ GetParams
    \/ Advance
    \/ Sync
    \/ SetAutoAdvance
    \/ ClearCache

SpecMgr == MgrInit /\ [][MgrNext]_vars

-----------------------------------------------------------------------------
(* core/types.rs: CommittedPublicInputs *)

\* a u64 as its 8 little-endian bytes
U64(n) == to_le_bytes(n, 8)

\* the concatenation of a sequence of byte strings
RECURSIVE Concat(_)
Concat(seq) == IF Len(seq) = 0 THEN <<>> ELSE Cat(Head(seq), Concat(Tail(seq)))

\* CommittedPublicInputs::commit (value_count is len() as u32)
commit(public_values, pv_salt) ==
    [ commitment |->
          poseidon_hash(Cat(Concat(public_values), pv_salt), DOMAIN_PV_COMMIT),
      value_count |-> Len(public_values) ]

\* CommittedPublicInputs::verify
committed_verify(committed, public_values, pv_salt) ==
    IF Len(public_values) # committed.value_count
    THEN FALSE
    ELSE constant_time_eq_fixed(committed.commitment,
                                commit(public_values, pv_salt).commitment)

-----------------------------------------------------------------------------
(* stark/real_stark.rs: the Fibonacci STARK *)

\* the tag byte of an AIR type
ProofAirType_as_u8(t) ==
    CASE t = "Fibonacci" -> 0
      [] t = "Sum" -> 1
      [] t = "Multiplication" -> 2
      [] t = "Range" -> 3

\* the (a, b) pair after k steps of c = a + b; a = b; b = c from (0, 1)
RECURSIVE fib_pair(_)
fib_pair(k) ==
    IF k = 0 THEN <<0, 1>>
    ELSE <<fib_pair(k - 1)[2], fib_pair(k - 1)[1] + fib_pair(k - 1)[2]>>

is_power_of_two(n) == n \in {1, 2, 4, 8, 16}

\* compute_public_values: [initial a, initial b, final a, final b]
compute_public_values(num_rows) ==
    <<U64(0), U64(1), U64(fib_pair(num_rows - 1)[1]), U64(fib_pair(num_rows - 1)[2])>>

\* the field elements the STARK is proved and verified against
canonical_values(public_values) ==
    [i \in 1..Len(public_values) |-> bytes_to_field(public_values[i])]

\* RealStarkProver::prove_fibonacci; inner is the opaque proof, which is a
\* proof of one statement: the trace height and the public values
prove_fibonacci(num_rows) ==
    [ air_type |-> "Fibonacci",
      num_rows |-> num_rows,
      public_values |-> compute_public_values(num_rows),
      inner |-> [ air_type |-> "Fibonacci",
                  num_rows |-> num_rows,
                  values |-> canonical_values(compute_public_values(num_rows)) ] ]

verify_public_values_consistency(num_rows, public_values) ==
    IF Len(public_values) # 4 THEN FALSE
    ELSE IF ~is_power_of_two(num_rows) \/ num_rows < 2 THEN FALSE
    ELSE IF public_values[1] # U64(0) \/ public_values[2] # U64(1) THEN FALSE
    ELSE IF \/ public_values[3] # U64(fib_pair(num_rows - 1)[1])
            \/ public_values[4] # U64(fib_pair(num_rows - 1)[2]) THEN FALSE
    ELSE TRUE

\* RealStarkVerifier::verify_fibonacci: the consistency check, then the
\* STARK verification, which accepts the statement the proof was made for
verify_fibonacci(proof) ==
    IF ~verify_public_values_consistency(proof.num_rows, proof.public_values)
    THEN FALSE
    ELSE /\ proof.inner.air_type = "Fibonacci"
         /\ proof.inner.num_rows = proof.num_rows
         /\ proof.inner.values = canonical_values(proof.public_values)

\* RealStarkVerifier::verify_by_type: the verification of the proof's AIR type
verify_by_type(proof) ==
    IF proof.air_type = "Fibonacci" THEN verify_fibonacci(proof) ELSE FALSE

-----------------------------------------------------------------------------
(* stark/integrated.rs *)

\* a binding hash that leaves the commitment out
compute_binding_hash_uncommitted(proof, params, committed) ==
    poseidon_hash(
        Cat(B(<<ProofAirType_as_u8(proof.air_type)>>),
        Cat(Concat(proof.public_values),
        Cat(to_le_bytes(committed.value_count, 4),
        Cat(to_le_bytes(params.epoch, 8),
        Cat(params.domain_separator,
        Cat(params.fri_seed, params.salt)))))),
        DOMAIN_BINDING)

compute_binding_hash(proof, params, committed) ==
    poseidon_hash(
        Cat(B(<<ProofAirType_as_u8(proof.air_type)>>),
        Cat(Concat(proof.public_values),
        Cat(committed.commitment,
        Cat(to_le_bytes(committed.value_count, 4),
        Cat(to_le_bytes(params.epoch, 8),
        Cat(params.domain_separator,
        Cat(params.fri_seed, params.salt))))))),
        DOMAIN_BINDING)

\* IntegratedProver::prove_fibonacci on a prover whose manager is m
IntegratedProver_prove_fibonacci(m, num_rows, pv_salt) ==
    LET stark_proof == prove_fibonacci(num_rows)
        params == m.current_params
        committed_public_values == commit(stark_proof.public_values, pv_salt)
    IN  [ stark_proof |-> stark_proof,
          epoch |-> m.current_epoch,
          params |-> params,
          binding_hash |->
              compute_binding_hash(stark_proof, params, committed_public_values),
          committed_public_values |-> committed_public_values,
          pv_salt |-> <<pv_salt>> ]

\* a verifier that follows the prover: it is anchored one epoch after the
\* one it was asked at
get_verifier_ahead(m) ==
    [current_epoch |-> m.current_epoch + 1,
     current_params |-> generate(m.seed, m.current_epoch + 1)]

\* IntegratedProver::get_verifier
get_verifier(m) ==
    [current_epoch |-> m.current_epoch, current_params |-> m.current_params]

\* IntegratedVerifier::new
IntegratedVerifier_new(seed, epoch) ==
    get_verifier(MTDManager_with_epoch(seed, epoch))

verify_params_match(v, proof_params) ==
    /\ proof_params.epoch = v.current_epoch
    /\ proof_params.domain_separator = v.current_params.domain_separator
    /\ proof_params.fri_seed = v.current_params.fri_seed
    /\ proof_params.salt = v.current_params.salt

\* a verifier that trusts the parameters the envelope carries
verify_unanchored(v, proof) ==
    IF ~constant_time_eq_fixed(
            proof.binding_hash,
            compute_binding_hash(proof.stark_proof, proof.params,
                                 proof.committed_public_values))
    THEN [ok |-> TRUE, val |-> FALSE, stage |-> 3]
    ELSE IF ~verify_by_type(proof.stark_proof)
    THEN [ok |-> TRUE, val |-> FALSE, stage |-> 4]
    ELSE [ok |-> TRUE, val |-> TRUE, stage |-> 0]

\* a verifier that checks the binding hash before the anchors
verify_binding_first(v, proof) ==
    IF ~constant_time_eq_fixed(
            proof.binding_hash,
            compute_binding_hash(proof.stark_proof, proof.params,
                                 proof.committed_public_values))
    THEN [ok |-> TRUE, val |-> FALSE, stage |-> 3]
    ELSE IF proof.epoch # v.current_epoch
    THEN [ok |-> TRUE, val |-> FALSE, stage |-> 1]
    ELSE IF ~verify_params_match(v, proof.params)
    THEN [ok |-> TRUE, val |-> FALSE, stage |-> 2]
    ELSE IF ~verify_by_type(proof.stark_proof)
    THEN [ok |-> TRUE, val |-> FALSE, stage |-> 4]
    ELSE [ok |-> TRUE, val |-> TRUE, stage |-> 0]

\* IntegratedVerifier::verify: Ok(val); stage is the check that returned
\* false (1 epoch, 2 params, 3 binding hash, 4 STARK), 0 when none did
verify(v, proof) ==
    IF proof.epoch # v.current_epoch
    THEN [ok |-> TRUE, val |-> FALSE, stage |-> 1]
    ELSE IF ~verify_params_match(v, proof.params)
    THEN [ok |-> TRUE, val |-> FALSE, stage |-> 2]
    ELSE IF ~constant_time_eq_fixed(
                 proof.binding_hash,
                 compute_binding_hash(proof.stark_proof, proof.params,
                                      proof.committed_public_values))
    THEN [ok |-> TRUE, val |-> FALSE, stage |-> 3]
    ELSE IF ~verify_by_type(proof.stark_proof)
    THEN [ok |-> TRUE, val |-> FALSE, stage |-> 4]
    ELSE [ok |-> TRUE, val |-> TRUE, stage |-> 0]

\* a verify_with_salt that needs the salt the envelope stores
verify_with_salt_stored(v, proof, public_values, pv_salt) ==
    IF proof.pv_salt # <<pv_salt>>
    THEN [ok |-> TRUE, val |-> FALSE, stage |-> 5]
    ELSE IF ~committed_verify(proof.committed_public_values, public_values,
                              pv_salt)
    THEN [ok |-> TRUE, val |-> FALSE, stage |-> 5]
    ELSE verify(v, proof)

\* IntegratedVerifier::verify_with_salt
verify_with_salt(v, proof, public_values, pv_salt) ==
    IF ~committed_verify(proof.committed_public_values, public_values, pv_salt)
    THEN [ok |-> TRUE, val |-> FALSE, stage |-> 5]
    ELSE verify(v, proof)

\* an erasure that wipes the commitment together with the salt
erase_salt_and_commitment(proof) ==
    [proof EXCEPT !.pv_salt = <<>>,
                  !.committed_public_values.commitment = Zeros(32)]

\* IntegratedProof::erase_salt
erase_salt(proof) == [proof EXCEPT !.pv_salt = <<>>]

\* IntegratedProof::has_salt
has_salt(proof) == Len(proof.pv_salt) > 0

-----------------------------------------------------------------------------
(* The integrated envelope: one prover, one envelope, one verifier *)

\* [7; 32], the salt the envelopes are proved with, and [0; 32]
ProveSalt == [i \in 1..32 |-> <<7>>]

FakeSalt == Zeros(32)

Salts == {ProveSalt, FakeSalt}

\* trace heights the prover is asked for
NumRows == {2, 4}

\* bitwise xor of two natural numbers
RECURSIVE Xor(_, _)
Xor(a, b) ==
    IF a = 0 THEN b
    ELSE IF b = 0 THEN a
    ELSE ((a + b) % 2) + (2 * Xor(a \div 2, b \div 2))

XorItem(it, x) ==
    IF IsByte(it) THEN <<Xor(it[1], x)>>
    ELSE <<it[1], it[2], it[3], Xor(it[4], x)>>

\* d[k] ^= x
XorByte(d, k, x) ==
    Cat(Cat(Take(d, k), <<XorItem(Slice(d, k, k + 1)[1], x)>>), Drop(d, k + 1))

\* the bytes an attacker changes in a digest: <<index, xor mask>>
TamperBytes == {<<0, 255>>, <<31, 1>>}

\* v + ORDER for a u64 v < 255, the other u64 of the same field element
PlusOrder(v) == B(<<v[1][1] + 1, 0, 0, 0, 255, 255, 255, 255>>)

\* v with its most significant byte set to 1
HighByte(v) == SubSeq(v, 1, 7) \o B(<<1>>)

\* the values an attacker writes over the public value v
TamperValues(v) == {U64(999), PlusOrder(v), HighByte(v)}

\* an envelope no one has changed since it was proved, as far as anyone can
\* tell: its binding hash and its STARK proof are consistent
Intact(proof) ==
    /\ proof.binding_hash =
           compute_binding_hash(proof.stark_proof, proof.params,
                                proof.committed_public_values)
    /\ verify_by_type(proof.stark_proof)

\* the prover's epochs stay below this one
MaxProverEpoch == 1

EnvOutcome(op, arg, r) == Outcome(op, arg, r.ok, r.val, r.stage, 0)

EnvInit ==
    /\ \E e \in InitEpochs : mgr = MTDManager_with_epoch(Seed, e)
    /\ last = Outcome("new", 0, TRUE, FALSE, 0, 0)
    /\ env = NoEnv
    /\ ver = NoEnv
    /\ batch = NoEnv

ProveFibonacci ==
    \E n \in NumRows :
        /\ env' = <<IntegratedProver_prove_fibonacci(mgr, n, ProveSalt)>>
        /\ last' = Outcome("prove_fibonacci", n, TRUE, FALSE, 0, 0)
        /\ UNCHANGED <<mgr, ver, batch>>

AdvanceEpoch ==
    /\ mgr.current_epoch < MaxProverEpoch
    /\ mgr' = advance(mgr).m
    /\ last' = Outcome("advance_epoch", 0, advance(mgr).ok, FALSE, 0, 0)
    /\ UNCHANGED <<env, ver, batch>>

GetVerifier ==
    /\ ver' = <<get_verifier(mgr)>>
    /\ last' = Outcome("get_verifier", 0, TRUE, FALSE, 0, 0)
    /\ UNCHANGED <<mgr, env, batch>>

NewVerifier ==
    \E seed \in Seeds, e \in 0..MaxProverEpoch :
        /\ ver' = <<IntegratedVerifier_new(seed, e)>>
        /\ last' = Outcome("new_verifier", 0, TRUE, FALSE, 0, 0)
        /\ UNCHANGED <<mgr, env, batch>>

Verify ==
    /\ Len(env) > 0
    /\ Len(ver) > 0
    /\ last' = EnvOutcome("verify", 0, verify(ver[1], env[1]))
    /\ UNCHANGED <<mgr, env, ver, batch>>

\* the arguments of verify_with_salt: the public values of the envelope or
\* others, with each salt
SaltArgs(proof) ==
    {<<proof.stark_proof.public_values, ProveSalt>>,
     <<proof.stark_proof.public_values, FakeSalt>>,
     <<compute_public_values(8), ProveSalt>>}

VerifyWithSalt ==
    /\ Len(env) > 0
    /\ Len(ver) > 0
    /\ \E a \in SaltArgs(env[1]) :
           last' = EnvOutcome("verify_with_salt", a,
                              verify_with_salt(ver[1], env[1], a[1], a[2]))
    /\ UNCHANGED <<mgr, env, ver, batch>>

EraseSalt ==
    /\ Len(env) > 0
    /\ env' = <<erase_salt(env[1])>>
    /\ last' = Outcome("erase_salt", IF has_salt(env[1]) THEN 0 ELSE 1,
                       TRUE, FALSE, 0, 0)
    /\ UNCHANGED <<mgr, ver, batch>>

TamperBindingHash ==
    /\ Len(env) > 0
    /\ Intact(env[1])
    /\ \E t \in TamperBytes :
           env' = <<[env[1] EXCEPT
                       !.binding_hash = XorByte(@, t[1], t[2])]>>
    /\ last' = Outcome("tamper_binding_hash", 0, TRUE, FALSE, 0, 0)
    /\ UNCHANGED <<mgr, ver, batch>>

TamperCommitment ==
    /\ Len(env) > 0
    /\ Intact(env[1])
    /\ \E t \in TamperBytes :
           env' = <<[env[1] EXCEPT
                       !.committed_public_values.commitment =
                           XorByte(@, t[1], t[2])]>>
    /\ last' = Outcome("tamper_commitment", 0, TRUE, FALSE, 0, 0)
    /\ UNCHANGED <<mgr, ver, batch>>

TamperPublicValue ==
    /\ Len(env) > 0
    /\ Intact(env[1])
    /\ \E i \in 1..Len(env[1].stark_proof.public_values) :
         \E v \in TamperValues(env[1].stark_proof.public_values[i]) :
           env' = <<[env[1] EXCEPT !.stark_proof.public_values[i] = v]>>
    /\ last' = Outcome("tamper_public_value", 0, TRUE, FALSE, 0, 0)
    /\ UNCHANGED <<mgr, ver, batch>>

\* the attacker changes the last public value and recomputes the binding
\* hash, which has no secret input
Rebind ==
    /\ Len(env) > 0
    /\ Intact(env[1])
    /\ \E v \in TamperValues(env[1].stark_proof.public_values[4]) :
         LET stark_proof ==
                 [env[1].stark_proof EXCEPT !.public_values[4] = v]
         IN  env' = <<[env[1] EXCEPT
                         !.stark_proof = stark_proof,
                         !.binding_hash =
                             compute_binding_hash(
                                 stark_proof, env[1].params,
                                 env[1].committed_public_values)]>>
    /\ last' = Outcome("rebind", 0, TRUE, FALSE, 0, 0)
    /\ UNCHANGED <<mgr, ver, batch>>

\* proving, verifying and tampering
EnvNext ==
    \/ ProveFibonacci
    \/ AdvanceEpoch
    \/ GetVerifier
    \/ NewVerifier
    \/ Verify
    \/ TamperBindingHash
    \/ TamperCommitment
    \/ TamperPublicValue
    \/ Rebind

SpecEnv == EnvInit /\ [][EnvNext]_vars

\* proving, verifying with and without the salt, and erasing the salt
SaltNext ==
    \/ ProveFibonacci
    \/ AdvanceEpoch
    \/ GetVerifier
    \/ NewVerifier
    \/ Verify
    \/ VerifyWithSalt
    \/ EraseSalt
    \/ TamperCommitment

SpecSalt == EnvInit /\ [][SaltNext]_vars

-----------------------------------------------------------------------------
(* stark/prover.rs, stark/verifier.rs: the simulation layer MTDProver and
   MTDVerifier.  A Witness and a PublicInputs are sequences of u64; a Result is
   a record: ok says Ok or Err, val is the value of an Ok, err the kind of an
   Err. *)

\* StarkConfig::for_testing().fri_queries
fri_queries == 50

MIN_WITNESS_SIZE == 4

MAX_BATCH_SIZE == 1000

Ok(v) == [ok |-> TRUE, val |-> v, err |-> ""]

Err(kind) == [ok |-> FALSE, val |-> FALSE, err |-> kind]

\* each u64 of a sequence as its little-endian bytes, one after the other
U64s(values) == Concat([i \in 1..Len(values) |-> U64(values[i])])

\* Proof::new
Proof_new(data, epoch) == [data |-> data, epoch |-> epoch, version |-> 1]

\* MTDProver::commit_trace
commit_trace(witness_data, params) ==
    poseidon_hash(Cat(U64s(witness_data), params.domain_separator),
                  DOMAIN_PROOF_GENERATION)

\* the query responses salt[i % 32] for i in 0..n
RECURSIVE query_responses(_, _)
query_responses(salt, n) ==
    IF n <= 32 THEN Take(salt, n)
    ELSE Cat(salt, query_responses(salt, n - 32))

\* MTDProver::generate_fri_proof
generate_fri_proof(params) ==
    Cat(params.fri_seed, query_responses(params.salt, fri_queries))

\* the serialized proof: the data followed by its integrity hash
with_integrity_hash(proof_data) ==
    Cat(proof_data, poseidon_hash(proof_data, DOMAIN_PROOF_INTEGRITY))

\* MTDProver::prove_internal
prove_internal(witness, public_inputs, params) ==
    IF Len(witness) < MIN_WITNESS_SIZE THEN Err("InvalidWitness")
    ELSE Ok(with_integrity_hash(
                Cat(Cat(commit_trace(witness, params),
                        generate_fri_proof(params)),
                    U64s(public_inputs))))

\* Ok(Proof::new(proof_data, epoch)) behind the ? of prove
proof_of(proof_data, epoch) ==
    IF proof_data.ok THEN Ok(Proof_new(proof_data.val, epoch)) ELSE proof_data

\* Prover::prove for MTDProver, on the prover's manager
MTDProver_prove(m, witness, public_inputs) ==
    proof_of(prove_internal(witness, public_inputs, m.current_params),
             m.current_params.epoch)

\* MTDProver::get_verifier
MTDProver_get_verifier(m) ==
    [current_epoch |-> m.current_epoch, current_params |-> m.current_params]

\* MTDVerifier::verify_integrity_hash
verify_integrity_hash(proof) ==
    IF ByteLen(proof.data) < 64 THEN FALSE
    ELSE LET hash_start == ByteLen(proof.data) - 32
         IN  constant_time_eq(
                 Drop(proof.data, hash_start),
                 poseidon_hash(Take(proof.data, hash_start),
                               DOMAIN_PROOF_INTEGRITY))

\* MTDVerifier::verify_fri_proof
verify_fri_proof(v, proof) ==
    LET fri_start == 32
        fri_seed_end == fri_start + 32
        queries_end == fri_seed_end + fri_queries
    IN  IF ByteLen(proof.data) < queries_end THEN FALSE
        ELSE IF Slice(proof.data, fri_start, fri_seed_end)
                    # v.current_params.fri_seed THEN FALSE
        ELSE Slice(proof.data, fri_seed_end, queries_end)
                 = query_responses(v.current_params.salt, fri_queries)

\* MTDVerifier::verify_public_inputs
verify_public_inputs(proof, public_inputs) ==
    LET start == 32 + 32 + fri_queries
    IN  IF ByteLen(proof.data) < start + (Len(public_inputs) * 8) THEN FALSE
        ELSE \A i \in 1..Len(public_inputs) :
                 Slice(proof.data, start + ((i - 1) * 8), start + (i * 8))
                     = U64(public_inputs[i])

\* MTDVerifier::verify_params_consistency
verify_params_consistency(v, trace_commitment) ==
    IF AllZero(trace_commitment) THEN FALSE
    ELSE IF AllZero(v.current_params.domain_separator) THEN FALSE
    ELSE ~AllZero(poseidon_hash(Cat(trace_commitment,
                                    v.current_params.domain_separator),
                                DOMAIN_PROOF_VERIFICATION))

\* MTDVerifier::verify_internal
verify_internal(v, proof, public_inputs) ==
    IF ~verify_integrity_hash(proof) THEN Ok(FALSE)
    ELSE IF ByteLen(proof.data) < 64 THEN Ok(FALSE)
    ELSE LET trace_commitment == Slice(proof.data, 0, 32)
         IN  IF ~verify_fri_proof(v, proof) THEN Ok(FALSE)
             ELSE IF ~verify_public_inputs(proof, public_inputs) THEN Ok(FALSE)
             ELSE IF ~verify_params_consistency(v, trace_commitment)
                  THEN Ok(FALSE)
             ELSE Ok(TRUE)

\* Verifier::verify for MTDVerifier with an epoch mismatch reported as
\* Ok(false)
MTDVerifier_verify_lenient(v, proof, public_inputs) ==
    IF proof.epoch # v.current_epoch THEN Ok(FALSE)
    ELSE IF ByteLen(proof.data) < 64 THEN Err("InvalidProof")
    ELSE verify_internal(v, proof, public_inputs)

\* Verifier::verify for MTDVerifier
MTDVerifier_verify(v, proof, public_inputs) ==
    IF proof.epoch # v.current_epoch THEN Err("InvalidProof")
    ELSE IF ByteLen(proof.data) < 64 THEN Err("InvalidProof")
    ELSE verify_internal(v, proof, public_inputs)

-----------------------------------------------------------------------------
(* batching/merkle.rs, batching/aggregator.rs, batching/batch_verifier.rs *)

\* combine_hashes of utils/hash.rs
combine_hashes(left, right, domain) == poseidon_hash(Cat(left, right), domain)

hash_leaf(data) == poseidon_hash(data, DOMAIN_MERKLE)

\* one pass of the inner loop of MerkleTree::new: neighbours are combined, a
\* last node without neighbour is combined with itself
next_level(current_level) ==
    [k \in 1..((Len(current_level) + 1) \div 2) |->
        IF 2 * k <= Len(current_level)
        THEN combine_hashes(current_level[(2 * k) - 1], current_level[2 * k],
                            DOMAIN_MERKLE)
        ELSE combine_hashes(current_level[(2 * k) - 1],
                            current_level[(2 * k) - 1], DOMAIN_MERKLE)]

\* the levels pushed by the outer loop of MerkleTree::new, the given one first
RECURSIVE build_levels(_)
build_levels(current_level) ==
    IF Len(current_level) <= 1 THEN <<current_level>>
    ELSE <<current_level>> \o build_levels(next_level(current_level))

\* the tree of MerkleTree::new: the root is the only node of the last level
tree_of(leaves, levels) ==
    [leaves |-> leaves, levels |-> levels, root |-> levels[Len(levels)][1]]

\* MerkleTree::new
MerkleTree_new(leaves) ==
    IF Len(leaves) = 0 THEN Err("MerkleError")
    ELSE Ok(tree_of(leaves, build_levels(leaves)))

\* the siblings MerkleTree::get_proof collects from level level_idx upwards
\* (levels and indices count from 0 as in the code)
RECURSIVE siblings_from(_, _, _)
siblings_from(tree, level_idx, current_index) ==
    IF level_idx >= Len(tree.levels) - 1 THEN <<>>
    ELSE LET level == tree.levels[level_idx + 1]
             sibling_index == IF current_index % 2 = 0
                              THEN current_index + 1
                              ELSE current_index - 1
             sibling == IF sibling_index < Len(level)
                        THEN level[sibling_index + 1]
                        ELSE level[current_index + 1]
         IN  <<sibling>> \o siblings_from(tree, level_idx + 1,
                                          current_index \div 2)

\* MerkleTree::get_proof
get_proof(tree, index) ==
    IF index >= Len(tree.leaves) THEN Err("MerkleError")
    ELSE Ok([leaf_index |-> index,
             siblings |-> siblings_from(tree, 0, index),
             root |-> tree.root])

\* the loop of MerklePath::compute_root
RECURSIVE fold_path(_, _, _)
fold_path(current_hash, current_index, siblings) ==
    IF Len(siblings) = 0 THEN current_hash
    ELSE fold_path(IF current_index % 2 = 0
                   THEN combine_hashes(current_hash, Head(siblings),
                                       DOMAIN_MERKLE)
                   ELSE combine_hashes(Head(siblings), current_hash,
                                       DOMAIN_MERKLE),
                   current_index \div 2,
                   Tail(siblings))

compute_root_as_left(path, leaf) == fold_path(leaf, 0, path.siblings)

\* MerklePath::compute_root
compute_root(path, leaf) == fold_path(leaf, path.leaf_index, path.siblings)

\* MerklePath::verify_against
verify_against(path, leaf, expected_root) ==
    constant_time_eq_fixed(compute_root(path, leaf), expected_root)

\* MerklePath::verify
MerklePath_verify(path, leaf) == verify_against(path, leaf, path.root)

\* the leaves of a batch: hash_leaf of each proof's data
leaves_of(proofs) == [i \in 1..Len(proofs) |-> hash_leaf(proofs[i].data)]

\* ProofBatch::new
ProofBatch_new(proofs, merkle_root, epoch) ==
    [proofs |-> proofs, merkle_root |-> merkle_root, epoch |-> epoch]

\* proofs.push(self.prover.prove(witness, inputs)?) for every pair: the
\* proofs in order, or the error of the first pair that fails
push_proof(results) ==
    IF \A i \in 1..Len(results) : results[i].ok
    THEN Ok([i \in 1..Len(results) |-> results[i].val])
    ELSE results[CHOOSE i \in 1..Len(results) :
                    ~results[i].ok /\ \A j \in 1..(i - 1) : results[j].ok]

\* the loop of BatchProver::prove_batch over the first k pairs
prove_each(m, witnesses, public_inputs, k) ==
    push_proof([i \in 1..k |->
                   MTDProver_prove(m, witnesses[i], public_inputs[i])])

\* BatchProver::prove_batch
prove_batch(m, witnesses, public_inputs) ==
    IF Len(witnesses) # Len(public_inputs) THEN Err("BatchError")
    ELSE IF Len(witnesses) = 0 THEN Err("BatchError")
    ELSE IF Len(witnesses) > MAX_BATCH_SIZE THEN Err("BatchError")
    ELSE prove_each(m, witnesses, public_inputs, Len(witnesses))

\* Ok(ProofBatch::new(proofs, *merkle_tree.root(), epoch)) behind the ? of
\* MerkleTree::new
batch_of(merkle_tree, proofs, epoch) ==
    IF ~merkle_tree.ok THEN merkle_tree
    ELSE Ok(ProofBatch_new(proofs, merkle_tree.val.root, epoch))

\* create_proof_batch
create_proof_batch(proofs, epoch) ==
    IF Len(proofs) = 0 THEN Err("BatchError")
    ELSE IF \E i \in 1..Len(proofs) : proofs[i].epoch # epoch
         THEN Err("BatchError")
    ELSE batch_of(MerkleTree_new(leaves_of(proofs)), proofs, epoch)

\* Ok(*merkle_tree.root()) behind the ? of MerkleTree::new
root_of(merkle_tree) ==
    IF ~merkle_tree.ok THEN merkle_tree ELSE Ok(merkle_tree.val.root)

\* BatchVerifier::compute_merkle_root
compute_merkle_root(proofs) == root_of(MerkleTree_new(leaves_of(proofs)))

\* one turn of the loop over the proofs in BatchVerifier::verify_batch:
\* an earlier error or false stands, else this proof decides
and_valid(before, is_valid) ==
    IF ~before.ok \/ ~before.val THEN before
    ELSE IF ~is_valid.ok THEN is_valid
    ELSE IF ~is_valid.val THEN Ok(FALSE)
    ELSE Ok(TRUE)

\* the loop over the proofs in BatchVerifier::verify_batch: the first result
\* among the first k proofs that is an error or false, else Ok(true)
RECURSIVE verify_each(_, _, _, _)
verify_each(v, proofs, public_inputs, k) ==
    IF k = 0 THEN Ok(TRUE)
    ELSE and_valid(verify_each(v, proofs, public_inputs, k - 1),
                   MTDVerifier_verify(v, proofs[k], public_inputs[k]))

\* BatchVerifier::verify_batch after its epoch checks, given the root it
\* computed
verify_rooted(v, b, public_inputs, computed_root) ==
    IF ~computed_root.ok THEN computed_root
    ELSE IF ~constant_time_eq(computed_root.val, b.merkle_root) THEN Ok(FALSE)
    ELSE verify_each(v, b.proofs, public_inputs, Len(b.proofs))

\* BatchVerifier::verify_batch without the comparison of the Merkle roots
verify_batch_unrooted(v, b, public_inputs) ==
    IF Len(b.proofs) # Len(public_inputs) THEN Err("BatchError")
    ELSE IF Len(b.proofs) = 0 THEN Err("BatchError")
    ELSE IF \E i \in 1..Len(b.proofs) : b.proofs[i].epoch # b.epoch
         THEN Err("InvalidEpoch")
    ELSE verify_each(v, b.proofs, public_inputs, Len(b.proofs))

\* BatchVerifier::verify_batch
verify_batch(v, b, public_inputs) ==
    IF Len(b.proofs) # Len(public_inputs) THEN Err("BatchError")
    ELSE IF Len(b.proofs) = 0 THEN Err("BatchError")
    ELSE IF \E i \in 1..Len(b.proofs) : b.proofs[i].epoch # b.epoch
         THEN Err("InvalidEpoch")
    ELSE verify_rooted(v, b, public_inputs, compute_merkle_root(b.proofs))

\* BatchVerifier::verify_single_in_batch once the path of the proof is there
verify_on_path(v, proof, public_inputs, merkle_proof) ==
    IF ~merkle_proof.ok THEN merkle_proof
    ELSE IF ~MerklePath_verify(merkle_proof.val, hash_leaf(proof.data))
         THEN Ok(FALSE)
    ELSE MTDVerifier_verify(v, proof, public_inputs)

\* merkle_tree.get_proof(index) behind the ? of MerkleTree::new
path_in(merkle_tree, index) ==
    IF ~merkle_tree.ok THEN merkle_tree ELSE get_proof(merkle_tree.val, index)

\* BatchVerifier::verify_single_in_batch (index counts from 0)
verify_single_in_batch(v, b, index, public_inputs) ==
    IF index >= Len(b.proofs) THEN Err("BatchError")
    ELSE IF b.proofs[index + 1].epoch # b.epoch THEN Ok(FALSE)
    ELSE verify_on_path(v, b.proofs[index + 1], public_inputs,
                        path_in(MerkleTree_new(leaves_of(b.proofs)), index))

-----------------------------------------------------------------------------
(* The life of a batch: a BatchProver proves and batches, its holder may
   overwrite the public fields of the ProofBatch, BatchVerifiers verify. *)

\* the largest batch the prover is asked for
MaxBatch == 3

\* the i-th witness and the i-th public inputs handed to the batch prover
witness_of(i) == [j \in 1..MIN_WITNESS_SIZE |-> (MIN_WITNESS_SIZE * (i - 1)) + j]

inputs_of(i) == <<41 + i>>

Witnesses(n) == [i \in 1..n |-> witness_of(i)]

Inputs(n) == [i \in 1..n |-> inputs_of(i)]

\* public inputs that belong to no proof
WrongInputs == <<999>>

\* [99u8; 32]
Nines == B([i \in 1..32 |-> 99])

\* the values the holder of a batch overwrites merkle_root with
TamperRoots(b) == {Nines, XorByte(b.merkle_root, 0, 1)}

\* the proofs a BatchProver of the long-lived seed issues at an epoch
proofs_at(epoch, n) ==
    prove_batch(MTDManager_with_epoch(Seed, epoch), Witnesses(n), Inputs(n)).val

\* a batch with its fields as create_proof_batch sets them: every proof of
\* the batch epoch, and the Merkle root of the proofs
AsCreated(b) ==
    /\ \A i \in 1..Len(b.proofs) : b.proofs[i].epoch = b.epoch
    /\ b.merkle_root = compute_merkle_root(b.proofs).val

BatchOutcome(op, arg, r) ==
    Outcome(op, arg, r.ok, r.ok /\ r.val, r.err, 0)

\* the epochs of the batch provers and verifiers
BatchEpochs == {0, 1}

BatchInit ==
    /\ \E e \in BatchEpochs : mgr = MTDManager_with_epoch(Seed, e)
    /\ last = Outcome("with_epoch", 0, TRUE, FALSE, "", 0)
    /\ env = NoEnv
    /\ ver = NoEnv
    /\ batch = NoEnv

\* create_proof_batch(proofs, epoch) behind the ? of prove_batch
create_from(proofs, epoch) ==
    IF proofs.ok THEN create_proof_batch(proofs.val, epoch) ELSE proofs

\* prove_batch and then create_proof_batch with the prover's epoch, as the
\* callers chain them
prove_and_create(m, n) ==
    create_from(prove_batch(m, Witnesses(n), Inputs(n)), m.current_epoch)

\* a batch of n proofs is asked for; n = 0 is refused
ProveBatch ==
    \E n \in 0..MaxBatch :
        \E created \in {prove_and_create(mgr, n)} :
            /\ batch' = IF created.ok THEN <<created.val>> ELSE batch
            /\ last' = Outcome("create_proof_batch", n, created.ok, FALSE,
                               created.err, 0)
            /\ UNCHANGED <<mgr, env, ver>>

\* BatchProver::advance_epoch
AdvanceBatchEpoch ==
    /\ mgr.current_epoch + 1 \in BatchEpochs
    /\ mgr' = advance(mgr).m
    /\ last' = Outcome("advance_epoch", 0, advance(mgr).ok, FALSE, "", 0)
    /\ UNCHANGED <<env, ver, batch>>

GetBatchVerifier ==
    /\ ver' = <<MTDProver_get_verifier(mgr)>>
    /\ last' = Outcome("get_verifier", 0, TRUE, FALSE, "", 0)
    /\ UNCHANGED <<mgr, env, batch>>

\* the verifier of another prover of the same seed, at any epoch
NewBatchVerifier ==
    \E e \in BatchEpochs :
        /\ ver' = <<MTDProver_get_verifier(MTDManager_with_epoch(Seed, e))>>
        /\ last' = Outcome("new_verifier", 0, TRUE, FALSE, "", 0)
        /\ UNCHANGED <<mgr, env, batch>>

\* batch.merkle_root = ...
TamperRoot ==
    /\ Len(batch) > 0
    /\ AsCreated(batch[1])
    /\ \E root \in TamperRoots(batch[1]) :
           batch' = <<[batch[1] EXCEPT !.merkle_root = root]>>
    /\ last' = Outcome("tamper_root", 0, TRUE, FALSE, "", 0)
    /\ UNCHANGED <<mgr, env, ver>>

\* ProofBatch::new over proofs and their Merkle root
rebatch(proofs, epoch) ==
    ProofBatch_new(proofs, compute_merkle_root(proofs).val, epoch)

\* ProofBatch::new over the proofs of b with the i-th replaced by the one
\* issued at epoch e
with_proof_of(b, i, e) ==
    rebatch([b.proofs EXCEPT ![i] = proofs_at(e, i)[i]], b.epoch)

ReplaceProof ==
    /\ Len(batch) > 0
    /\ AsCreated(batch[1])
    /\ \E i \in 1..Len(batch[1].proofs) :
       \E e \in BatchEpochs \ {batch[1].epoch} :
           batch' = <<with_proof_of(batch[1], i, e)>>
    /\ last' = Outcome("replace_proof", 0, TRUE, FALSE, "", 0)
    /\ UNCHANGED <<mgr, env, ver>>

\* the public inputs handed to verify_batch: those of the proofs, others,
\* or too few
BatchInputs(n) ==
    {Inputs(n), [Inputs(n) EXCEPT ![n] = WrongInputs], Inputs(n - 1)}

VerifyBatch ==
    /\ Len(batch) > 0
    /\ Len(ver) > 0
    /\ \E public_inputs \in BatchInputs(Len(batch[1].proofs)) :
           last' = BatchOutcome("verify_batch", public_inputs,
                                verify_batch(ver[1], batch[1], public_inputs))
    /\ UNCHANGED <<mgr, env, ver, batch>>

\* the public inputs handed over with the proof at an index: its own, and
\* for the first proof also others
SingleInputs(index) ==
    IF index = 0 THEN {inputs_of(1), WrongInputs} ELSE {inputs_of(index + 1)}

VerifySingleInBatch ==
    /\ Len(batch) > 0
    /\ Len(ver) > 0
    /\ \E index \in 0..Len(batch[1].proofs) :
       \E public_inputs \in SingleInputs(index) :
           last' = BatchOutcome("verify_single_in_batch",
                                <<index, public_inputs>>,
                                verify_single_in_batch(ver[1], batch[1], index,
                                                       public_inputs))
    /\ UNCHANGED <<mgr, env, ver, batch>>

\* Verifier::verify on one proof of the batch
VerifyProof ==
    /\ Len(batch) > 0
    /\ Len(ver) > 0
    /\ \E index \in 0..(Len(batch[1].proofs) - 1) :
       \E public_inputs \in SingleInputs(index) :
           last' = BatchOutcome("verify_proof", <<index, public_inputs>>,
                                MTDVerifier_verify(ver[1],
                                                   batch[1].proofs[index + 1],
                                                   public_inputs))
    /\ UNCHANGED <<mgr, env, ver, batch>>

BatchNext ==
    \/ ProveBatch
    \/ AdvanceBatchEpoch
    \/ GetBatchVerifier
    \/ NewBatchVerifier
    \/ TamperRoot
    \/ ReplaceProof
    \/ VerifyBatch
    \/ VerifySingleInBatch
    \/ VerifyProof

SpecBatch == BatchInit /\ [][BatchNext]_vars

-----------------------------------------------------------------------------
(* The batch prover API under its callers: a caller asks a BatchProver for
   batches of proofs, appends them to one Vec<Proof> and hands the vector to
   create_proof_batch.  env holds the batches appended so far. *)

\* the batches a caller appends before it calls create_proof_batch
MaxAppends == 2

\* the numbers of witnesses and of public inputs of a prove_batch call
BatchSizes == {0, 1, MAX_BATCH_SIZE, MAX_BATCH_SIZE + 1}

\* the caller's vector: the appended batches, one after the other
RECURSIVE Appended(_)
Appended(batches) ==
    IF Len(batches) = 0 THEN <<>>
    ELSE Appended(SubSeq(batches, 1, Len(batches) - 1)) \o batches[Len(batches)]

\* the number of proofs a call returned: proofs.len() of an Ok
Returned(r, proofs) == IF r.ok THEN Len(proofs) ELSE 0

PoolInit ==
    /\ mgr = MTDManager_with_epoch(Seed, 0)
    /\ last = Outcome("with_epoch", 0, TRUE, FALSE, "", 0)
    /\ env = <<>>
    /\ ver = NoEnv
    /\ batch = NoEnv

\* BatchProver::prove_batch; the caller appends the proofs of an Ok
PoolProveBatch ==
    \E nw \in BatchSizes, ni \in BatchSizes :
        \E proofs \in {prove_batch(mgr, Witnesses(nw), Inputs(ni))} :
            /\ last' = Outcome("prove_batch", <<nw, ni>>, proofs.ok, FALSE,
                               proofs.err, Returned(proofs, proofs.val))
            /\ env' = IF proofs.ok /\ Len(env) < MaxAppends
                      THEN Append(env, proofs.val) ELSE env
            /\ UNCHANGED <<mgr, ver, batch>>

\* create_proof_batch on the caller's vector, which is moved into the call
PoolCreateBatch ==
    \E epoch \in BatchEpochs :
        \E created \in {create_proof_batch(Appended(env), epoch)} :
            /\ last' = Outcome("create_proof_batch", epoch, created.ok, FALSE,
                               created.err,
                               Returned(created, created.val.proofs))
            /\ env' = <<>>
            /\ UNCHANGED <<mgr, ver, batch>>

PoolNext ==
    \/ PoolProveBatch
    \/ PoolCreateBatch

SpecPool == PoolInit /\ [][PoolNext]_vars

-----------------------------------------------------------------------------
(* solana/onchain_verifier.rs, solana/lightweight.rs.  A VerificationStatus
   is a sequence: its variant first, then the fields of the variant. *)

\* u64::saturating_sub
saturating_sub(a, b) == IF a >= b THEN a - b ELSE 0

\* OnchainVerifier::new
OnchainVerifier_new(current_epoch, expected_committed_values) ==
    [current_epoch |-> current_epoch,
     epoch_tolerance |-> 1,
     expected_public_values |-> <<>>,
     expected_committed_values |-> expected_committed_values]

\* OnchainVerifier::with_epoch_tolerance
with_epoch_tolerance(v, tolerance) == [v EXCEPT !.epoch_tolerance = tolerance]

\* OnchainVerifier::with_expected_values
with_expected_values(v, values) ==
    [v EXCEPT !.expected_public_values = <<values>>]

\* LightweightProof::new
LightweightProof_new(commitment, merkle_root, epoch, timestamp, public_values, committed_values) ==
    [commitment |-> commitment, merkle_root |-> merkle_root, epoch |-> epoch,
     timestamp |-> timestamp, public_values |-> public_values,
     committed_values |-> committed_values]

\* LightweightProof::from_commitment
from_commitment(commitment, epoch, public_values, committed_values) ==
    LightweightProof_new(commitment, commitment, epoch, 0, public_values,
                         committed_values)

is_valid_epoch_past_only(v, proof_epoch) ==
    saturating_sub(v.current_epoch, v.epoch_tolerance) <= proof_epoch

\* OnchainVerifier::is_valid_epoch
is_valid_epoch(v, proof_epoch) ==
    IF proof_epoch > v.current_epoch THEN FALSE
    ELSE saturating_sub(v.current_epoch, v.epoch_tolerance) <= proof_epoch

\* OnchainVerifier::verify_public_values
verify_public_values(actual, expected) ==
    IF Len(actual) # Len(expected) THEN FALSE
    ELSE \A i \in 1..Len(actual) : actual[i] = expected[i]

\* OnchainVerifier::verify.  Its second step compares the commitment and the
\* merkle root in the condition of an if whose body is empty.
OnchainVerifier_verify(v, proof) ==
    IF ~is_valid_epoch(v, proof.epoch)
    THEN <<"InvalidEpoch", v.current_epoch, proof.epoch>>
    ELSE IF /\ Len(v.expected_public_values) > 0
            /\ ~verify_public_values(proof.public_values,
                                     v.expected_public_values[1])
         THEN <<"InvalidPublicValues">>
    ELSE IF proof.committed_values # v.expected_committed_values
         THEN <<"InvalidCommittedValues">>
    ELSE <<"Valid">>

\* the loop of BatchLightweightProof::verify_inclusion
RECURSIVE inclusion_root(_, _, _)
inclusion_root(current, index, merkle_path) ==
    IF Len(merkle_path) = 0 THEN current
    ELSE inclusion_root(
             IF index % 2 = 0
             THEN poseidon_hash(Cat(current, merkle_path[1]), DOMAIN_MERKLE)
             ELSE poseidon_hash(Cat(merkle_path[1], current), DOMAIN_MERKLE),
             index \div 2, Tail(merkle_path))

\* BatchLightweightProof::verify_inclusion
verify_inclusion(bp) ==
    inclusion_root(bp.leaf_commitment, bp.leaf_index, bp.merkle_path)
        = bp.merkle_root

\* OnchainVerifier::verify_batch
OnchainVerifier_verify_batch(v, batch_proof) ==
    IF ~is_valid_epoch(v, batch_proof.epoch)
    THEN <<"InvalidEpoch", v.current_epoch, batch_proof.epoch>>
    ELSE IF ~verify_inclusion(batch_proof) THEN <<"InvalidMerkleProof">>
    ELSE <<"Valid">>

(* An on-chain program: it configures an OnchainVerifier and verifies the
   proof of the instruction at hand, a lightweight proof (env) or a batch
   proof (batch). *)

\* the epochs of the verifier and of the submitted proofs, and the tolerances
OnchainEpochs == {0, 1, 2, U64_MAX}

Tolerances == {0, 1, U64_MAX}

\* [c; 32]
Filled(c) == B([i \in 1..32 |-> c])

Fibs == <<1, 1, 2, 3, 5, 8, 13, 21>>

NotFibs == <<1, 2, 3, 4, 5, 6, 7, 8>>

\* the root over the two leaf commitments [1; 32] and [2; 32]
TwoLeafRoot == poseidon_hash(Cat(Filled(1), Filled(2)), DOMAIN_MERKLE)

\* BatchLightweightProof, all its fields public
BatchLightweightProof(merkle_root, epoch, leaf_index) ==
    [merkle_root |-> merkle_root, proof_count |-> 2, epoch |-> epoch,
     merkle_path |-> <<Filled(2)>>, leaf_index |-> leaf_index,
     leaf_commitment |-> Filled(1)]

OnchainInit ==
    /\ \E e \in OnchainEpochs : ver = OnchainVerifier_new(e, Nines)
    /\ last = Outcome("new", 0, TRUE, FALSE, <<>>, 0)
    /\ mgr = NoEnv
    /\ env = NoEnv
    /\ batch = NoEnv

WithEpochTolerance ==
    /\ \E tolerance \in Tolerances : ver' = with_epoch_tolerance(ver, tolerance)
    /\ last' = Outcome("with_epoch_tolerance", 0, TRUE, FALSE, <<>>, 0)
    /\ UNCHANGED <<mgr, env, batch>>

WithExpectedValues ==
    /\ ver' = with_expected_values(ver, Fibs)
    /\ last' = Outcome("with_expected_values", 0, TRUE, FALSE, <<>>, 0)
    /\ UNCHANGED <<mgr, env, batch>>

\* a proof made by LightweightProof::from_commitment is submitted
SubmitFromCommitment ==
    /\ \E epoch \in OnchainEpochs, public_values \in {Fibs, NotFibs},
          committed_values \in {Nines, Filled(3)} :
           env' = <<from_commitment(Filled(1), epoch, public_values,
                                    committed_values)>>
    /\ batch' = NoEnv
    /\ last' = Outcome("from_commitment", 0, TRUE, FALSE, <<>>, 0)
    /\ UNCHANGED <<mgr, ver>>

\* a proof made by LightweightProof::new, with a merkle root of its own, is
\* submitted
SubmitNew ==
    /\ \E merkle_root \in {Zeros(32), Filled(2)}, epoch \in OnchainEpochs :
           env' = <<LightweightProof_new(Filled(1), merkle_root, epoch, 0,
                                         Fibs, Nines)>>
    /\ batch' = NoEnv
    /\ last' = Outcome("new", 0, TRUE, FALSE, <<>>, 0)
    /\ UNCHANGED <<mgr, ver>>

\* a batch proof is submitted
SubmitBatchProof ==
    /\ \E merkle_root \in {TwoLeafRoot, Nines}, epoch \in OnchainEpochs,
          leaf_index \in {0, 1} :
           batch' = <<BatchLightweightProof(merkle_root, epoch, leaf_index)>>
    /\ env' = NoEnv
    /\ last' = Outcome("batch_proof", 0, TRUE, FALSE, <<>>, 0)
    /\ UNCHANGED <<mgr, ver>>

\* OnchainVerifier::verify
OnchainVerify ==
    /\ env # NoEnv
    /\ last' = Outcome("verify", env[1].epoch, TRUE, FALSE,
                       OnchainVerifier_verify(ver, env[1]), 0)
    /\ UNCHANGED <<mgr, ver, env, batch>>

\* OnchainVerifier::verify_batch
OnchainVerifyBatch ==
    /\ batch # NoEnv
    /\ last' = Outcome("verify_batch", batch[1].epoch, TRUE, FALSE,
                       OnchainVerifier_verify_batch(ver, batch[1]), 0)
    /\ UNCHANGED <<mgr, ver, env, batch>>

OnchainNext ==
    \/ WithEpochTolerance
    \/ WithExpectedValues
    \/ SubmitFromCommitment
    \/ SubmitNew
    \/ SubmitBatchProof
    \/ OnchainVerify
    \/ OnchainVerifyBatch

SpecOnchain == OnchainInit /\ [][OnchainNext]_vars

-----------------------------------------------------------------------------
(* A commitment to public values: its owner commits to values under a salt
   (env holds the commitment and what it was made of), anyone asks whether
   values and a salt match it. *)

\* ORDER_U64 = 2^64 - 2^32 + 1 as a u64
OrderU64 == B(<<1, 0, 0, 0, 255, 255, 255, 255>>)

\* the lists of public values committed to and asked about
CommitValues ==
    { <<>>, <<U64(0)>>, <<OrderU64>>, <<U64(1)>>, <<U64(1), U64(2)>>,
      <<U64(1), PlusOrder(U64(2))>> }

\* the salts: [7; 32], [0; 32] and ORDER_U64 followed by 24 zero bytes
CommitSalts == {ProveSalt, Zeros(32), Cat(OrderU64, Zeros(24))}

CommitInit ==
    /\ \E values \in CommitValues, salt \in CommitSalts :
           env = <<[committed |-> commit(values, salt),
                    values |-> values, salt |-> salt]>>
    /\ last = Outcome("commit", 0, TRUE, FALSE, 0, 0)
    /\ mgr = NoEnv
    /\ ver = NoEnv
    /\ batch = NoEnv

\* CommittedPublicInputs::commit
Commit ==
    /\ \E values \in CommitValues, salt \in CommitSalts :
           env' = <<[committed |-> commit(values, salt),
                     values |-> values, salt |-> salt]>>
    /\ last' = Outcome("commit", 0, TRUE, FALSE, 0, 0)
    /\ UNCHANGED <<mgr, ver, batch>>

\* CommittedPublicInputs::verify
CommitVerify ==
    /\ \E values \in CommitValues, salt \in CommitSalts :
           last' = Outcome("verify", <<values, salt>>, TRUE,
                           committed_verify(env[1].committed, values, salt),
                           0, 0)
    /\ UNCHANGED <<mgr, env, ver, batch>>

CommitNext ==
    \/ Commit
    \/ CommitVerify

SpecCommit == CommitInit /\ [][CommitNext]_vars

-----------------------------------------------------------------------------
(* A Merkle tree and its paths: a tree is built over leaves (batch holds it),
   a path is asked for (env holds it), the path is verified against leaves. *)

\* the largest number of leaves of a tree
MaxLeaves == 5

\* the k-th leaf of a tree: a digest, or 32 bytes whose first 8 bytes are
\* k - 1 + ORDER_U64 as a little-endian u64
DigestLeaf(k) == hash_leaf(U64(k))

RawLeaf(k) == Cat(PlusOrder(U64(k - 1)), B([i \in 1..24 |-> k]))

LeafLists ==
    {[k \in 1..n |-> DigestLeaf(k)] : n \in 0..MaxLeaves}
        \cup {[k \in 1..n |-> RawLeaf(k)] : n \in 1..MaxLeaves}

\* the single-byte changes made to a leaf: <<index, xor mask>>
LeafTampers == {<<0, 1>>, <<4, 255>>, <<7, 128>>, <<31, 1>>}

\* the leaf the path at hand was asked for
path_leaf == batch[1].leaves[env[1].leaf_index + 1]

\* that leaf, and that leaf with one byte changed
LeafArgs ==
    {path_leaf} \cup {XorByte(path_leaf, t[1], t[2]) : t \in LeafTampers}

MerkleInit ==
    /\ batch = <<MerkleTree_new(<<DigestLeaf(1)>>).val>>
    /\ last = Outcome("new", 1, TRUE, FALSE, "", 0)
    /\ mgr = NoEnv
    /\ env = NoEnv
    /\ ver = NoEnv

\* MerkleTree::new; the paths of the tree before are dropped with it
MerkleNew ==
    \E leaves \in LeafLists :
        \E tree \in {MerkleTree_new(leaves)} :
            /\ batch' = IF tree.ok THEN <<tree.val>> ELSE batch
            /\ env' = IF tree.ok THEN NoEnv ELSE env
            /\ last' = Outcome("new", Len(leaves), tree.ok, FALSE, tree.err, 0)
            /\ UNCHANGED <<mgr, ver>>

\* MerkleTree::get_proof
GetProof ==
    \E index \in 0..Len(batch[1].leaves) :
        \E path \in {get_proof(batch[1], index)} :
            /\ env' = IF path.ok THEN <<path.val>> ELSE env
            /\ last' = Outcome("get_proof", index, path.ok, FALSE, path.err, 0)
            /\ UNCHANGED <<mgr, ver, batch>>

\* MerklePath::verify
PathVerify ==
    /\ env # NoEnv
    /\ \E leaf \in LeafArgs :
           last' = Outcome("verify", leaf, TRUE,
                           MerklePath_verify(env[1], leaf), "", 0)
    /\ UNCHANGED <<mgr, env, ver, batch>>

\* MerklePath::verify_against
PathVerifyAgainst ==
    /\ env # NoEnv
    /\ \E leaf \in LeafArgs, expected_root \in {batch[1].root, Nines} :
           last' = Outcome("verify_against", <<leaf, expected_root>>, TRUE,
                           verify_against(env[1], leaf, expected_root), "", 0)
    /\ UNCHANGED <<mgr, env, ver, batch>>

MerkleNext ==
    \/ MerkleNew
    \/ GetProof
    \/ PathVerify
    \/ PathVerifyAgainst

SpecMerkle == MerkleInit /\ [][MerkleNext]_vars

-----------------------------------------------------------------------------
(* mtd/epoch.rs and MTDManager::validate_timestamp: the arithmetic of epochs
   and timestamps.  A u64 of this section is a 16-bit word, wide enough for
   the products with EPOCH_DURATION_SECS both to fit and to overflow.  An
   arithmetic overflow panics in a build with overflow checks and wraps in a
   build without; overflow_checks says which build runs. *)

\* stand-in for u64::MAX in timestamp arithmetic (the real value is 2^64 - 1)
TS_U64_MAX == 65535

\* MAX_EPOCH = u64::MAX - 1 at that width
TS_MAX_EPOCH == TS_U64_MAX - 1

EPOCH_DURATION_SECS == 3600

TIMESTAMP_TOLERANCE_SECS == 300

\* the u64 result of +, - or * whose exact result is given
u64_op(exact, overflow_checks) ==
    IF exact \in 0..TS_U64_MAX THEN Ok(exact)
    ELSE IF overflow_checks THEN Err("panic")
    ELSE Ok(exact % (TS_U64_MAX + 1))

\* u64::saturating_add
saturating_add(a, b) == IF a + b > TS_U64_MAX THEN TS_U64_MAX ELSE a + b

\* Epoch::new
Epoch_new(value) == value

\* Epoch::from_timestamp
Epoch_from_timestamp(timestamp_secs) ==
    Epoch_new(timestamp_secs \div EPOCH_DURATION_SECS)

\* u64::from_le_bytes, on the two bytes of a word
from_le_bytes(bytes) == bytes[1] + (256 * bytes[2])

\* Epoch::from_bytes
Epoch_from_bytes(bytes) == Epoch_new(from_le_bytes(bytes))

\* Epoch::next as a Result
Epoch_next_checked(v) ==
    IF v >= TS_MAX_EPOCH THEN Err("InvalidEpoch") ELSE Ok(Epoch_new(v + 1))

\* Epoch::prev
Epoch_prev(v) == IF v = 0 THEN Err("InvalidEpoch") ELSE Ok(Epoch_new(v - 1))

\* Epoch::advance: checked_add, then the comparison with MAX_EPOCH
Epoch_advance(v, count) ==
    IF v + count > TS_U64_MAX THEN Err("InvalidEpoch")
    ELSE IF v + count > TS_MAX_EPOCH THEN Err("InvalidEpoch")
    ELSE Ok(Epoch_new(v + count))

\* Epoch::start_timestamp
start_timestamp(v, overflow_checks) ==
    u64_op(v * EPOCH_DURATION_SECS, overflow_checks)

\* the - 1 of Epoch::end_timestamp, behind the product
minus_one(product, overflow_checks) ==
    IF product.ok THEN u64_op(product.val - 1, overflow_checks) ELSE product

\* the multiplication of Epoch::end_timestamp, behind the sum
times_duration(sum, overflow_checks) ==
    IF sum.ok THEN u64_op(sum.val * EPOCH_DURATION_SECS, overflow_checks)
    ELSE sum

\* Epoch::end_timestamp
end_timestamp(v, overflow_checks) ==
    minus_one(times_duration(u64_op(v + 1, overflow_checks), overflow_checks),
              overflow_checks)

\* the comparison of MTDManager::validate_timestamp, behind its two bounds
within_bounds(epoch_start, epoch_end, timestamp_secs) ==
    IF ~epoch_start.ok THEN epoch_start
    ELSE IF ~epoch_end.ok THEN epoch_end
    ELSE Ok(/\ timestamp_secs >= saturating_sub(epoch_start.val,
                                                TIMESTAMP_TOLERANCE_SECS)
            /\ timestamp_secs <= saturating_add(epoch_end.val,
                                                TIMESTAMP_TOLERANCE_SECS))

\* MTDManager::validate_timestamp
validate_timestamp(m, timestamp_secs, overflow_checks) ==
    within_bounds(start_timestamp(m.current_epoch, overflow_checks),
                  end_timestamp(m.current_epoch, overflow_checks),
                  timestamp_secs)

(* An Epoch is constructed and stepped (env holds it, batch counts the steps
   since its construction), a manager is built on it and asked about
   timestamps; ver holds the build. *)

\* the steps taken on an Epoch after its construction
MaxEpochSteps == 2

\* the first epoch whose end_timestamp is above u64::MAX
OverflowEpoch == (TS_U64_MAX + 1) \div EPOCH_DURATION_SECS

\* the values an Epoch is constructed from
EpochValues ==
    {0, 1, OverflowEpoch - 1, OverflowEpoch, TS_MAX_EPOCH, TS_U64_MAX}

\* the byte arrays an Epoch is parsed from
EpochBytes == {<<0, 0>>, <<16, 14>>, <<254, 255>>, <<255, 255>>}

\* the counts an Epoch is advanced by
AdvanceCounts == {0, 1, TS_U64_MAX}

Near(x) == {x - 1, x, x + 1}

\* the timestamps a manager at epoch v is asked about: the ends of the u64
\* range and the neighbours of the bounds of its window, exact and wrapped
TimestampInputs(v) ==
    ({0, TS_U64_MAX}
        \cup Near((v * EPOCH_DURATION_SECS) - TIMESTAMP_TOLERANCE_SECS)
        \cup Near(((v + 1) * EPOCH_DURATION_SECS) - 1 + TIMESTAMP_TOLERANCE_SECS)
        \cup Near(((v * EPOCH_DURATION_SECS) - TIMESTAMP_TOLERANCE_SECS)
                      % (TS_U64_MAX + 1))
        \cup Near((((v + 1) * EPOCH_DURATION_SECS) - 1
                      + TIMESTAMP_TOLERANCE_SECS) % (TS_U64_MAX + 1)))
        \cap (0..TS_U64_MAX)

EpochInit ==
    /\ \E overflow_checks \in BOOLEAN :
           ver = [overflow_checks |-> overflow_checks]
    /\ env = <<Epoch_new(0)>>
    /\ batch = 0
    /\ mgr = NoEnv
    /\ last = Outcome("default", 0, TRUE, FALSE, "", 0)

\* Epoch::new
EpochNew ==
    /\ \E value \in EpochValues :
           /\ env' = <<Epoch_new(value)>>
           /\ last' = Outcome("new", value, TRUE, FALSE, "", 0)
    /\ batch' = 0
    /\ UNCHANGED <<mgr, ver>>

\* Epoch::from_bytes
EpochFromBytes ==
    /\ \E bytes \in EpochBytes :
           /\ env' = <<Epoch_from_bytes(bytes)>>
           /\ last' = Outcome("from_bytes", bytes, TRUE, FALSE, "", 0)
    /\ batch' = 0
    /\ UNCHANGED <<mgr, ver>>

\* Epoch::from_timestamp
EpochFromTimestamp ==
    /\ \E timestamp_secs \in {EPOCH_DURATION_SECS - 1, TS_U64_MAX} :
           /\ env' = <<Epoch_from_timestamp(timestamp_secs)>>
           /\ last' = Outcome("from_timestamp", timestamp_secs, TRUE, FALSE,
                              "", 0)
    /\ batch' = 0
    /\ UNCHANGED <<mgr, ver>>

\* a step on the Epoch at hand, which is replaced by the Epoch of an Ok
EpochStep(op, arg, r) ==
    /\ batch < MaxEpochSteps
    /\ env' = IF r.ok THEN <<r.val>> ELSE env
    /\ last' = Outcome(op, arg, r.ok, FALSE, r.err, 0)
    /\ batch' = batch + 1
    /\ UNCHANGED <<mgr, ver>>

\* Epoch::next
EpochNext == EpochStep("next", 0, Epoch_next_checked(env[1]))

\* Epoch::prev
EpochPrev == EpochStep("prev", 0, Epoch_prev(env[1]))

\* Epoch::advance
EpochAdvance ==
    \E count \in AdvanceCounts :
        EpochStep("advance", count, Epoch_advance(env[1], count))

\* MTDManager::with_epoch on the Epoch at hand
ManagerWithEpoch ==
    /\ mgr' = MTDManager_with_epoch(Seed, env[1])
    /\ last' = Outcome("with_epoch", env[1], TRUE, FALSE, "", 0)
    /\ UNCHANGED <<env, ver, batch>>

\* MTDManager::validate_timestamp
ValidateTimestamp ==
    /\ mgr # NoEnv
    /\ \E timestamp_secs \in TimestampInputs(mgr.current_epoch) :
           \E r \in {validate_timestamp(mgr, timestamp_secs,
                                        ver.overflow_checks)} :
               last' = Outcome("validate_timestamp", timestamp_secs, r.ok,
                               r.ok /\ r.val, r.err, 0)
    /\ UNCHANGED <<mgr, env, ver, batch>>

EpochSpecNext ==
    \/ EpochNew
    \/ EpochFromBytes
    \/ EpochFromTimestamp
    \/ EpochNext
    \/ EpochPrev
    \/ EpochAdvance
    \/ ManagerWithEpoch
    \/ ValidateTimestamp

SpecEpoch == EpochInit /\ [][EpochSpecNext]_vars

-----------------------------------------------------------------------------
(* utils/compression.rs: CompressedProof and the RLE codec *)

(* A Vec<u8> of this section is kept as its runs: a sequence of
   <<value, count>> with count >= 1 in which adjacent runs have different
   values.  Every byte string has exactly one such sequence, so equality of
   the sequences is equality of the byte strings, and a string of 10 MiB is
   a value the model can hold. *)

\* utils/constants.rs
MAX_RLE_DECOMPRESSED_SIZE == 10485760

\* the byte string of count bytes of value
Run(value, count) == IF count = 0 THEN <<>> ELSE << <<value, count>> >>

\* <[u8]>::len
RECURSIVE RunLen(_)
RunLen(data) ==
    IF data = <<>> THEN 0 ELSE Head(data)[2] + RunLen(Tail(data))

\* count times Vec::push(value)
push_run(out, value, count) ==
    IF count = 0 THEN out
    ELSE IF Len(out) > 0 /\ out[Len(out)][1] = value
         THEN [out EXCEPT ![Len(out)] = <<value, @[2] + count>>]
         ELSE Append(out, <<value, count>>)

\* a followed by b
CatRuns(a, b) ==
    IF b = <<>> THEN a
    ELSE push_run(a, Head(b)[1], Head(b)[2]) \o Tail(b)

\* the byte string of q times the two bytes value, count
Pairs(value, count, q) ==
    IF q = 0 THEN <<>>
    ELSE IF value = count THEN Run(value, 2 * q)
    ELSE [i \in 1..(2 * q) |-> IF i % 2 = 1 THEN <<value, 1>> ELSE <<count, 1>>]

\* compress_rle with a count that wraps at 256 instead of closing the run
RECURSIVE rle_of_wrapping(_)
rle_of_wrapping(data) ==
    IF data = <<>> THEN <<>>
    ELSE CatRuns(Pairs(Head(data)[1], Head(data)[2] % 256, 1),
                 rle_of_wrapping(Tail(data)))

\* The loop of compress_rle.  The bytes of a run are equal and the byte after
\* it differs, so the loop closes a pair (value, 255) each time count is 255
\* and the run goes on, and a last pair with what is left when the run ends.
RECURSIVE rle_of(_)
rle_of(data) ==
    IF data = <<>> THEN <<>>
    ELSE LET value == Head(data)[1]
             n == Head(data)[2]
         IN  CatRuns(CatRuns(Pairs(value, 255, n \div 255),
                             Pairs(value, n % 255,
                                   IF n % 255 = 0 THEN 0 ELSE 1)),
                     rle_of(Tail(data)))

compress_rle(data) == Ok(rle_of(data))

\* data without its first byte
rest_of(data) ==
    IF Head(data)[2] = 1 THEN Tail(data)
    ELSE << <<Head(data)[1], Head(data)[2] - 1>> >> \o Tail(data)

\* The loop of decompress_rle over data.chunks_exact(2) of a string of even
\* length: the pairs inside the first run are (value, value); the last byte of
\* a run of odd length is paired with the first byte of the next run.
RECURSIVE expand(_, _)
expand(data, decompressed) ==
    IF data = <<>> THEN decompressed
    ELSE LET value == Head(data)[1]
             n == Head(data)[2]
         IN  IF n >= 2
             THEN expand(IF n % 2 = 0 THEN Tail(data)
                         ELSE Run(value, 1) \o Tail(data),
                         push_run(decompressed, value, value * (n \div 2)))
             ELSE expand(rest_of(Tail(data)),
                         push_run(decompressed, value, Head(Tail(data))[1]))

decompress_rle(data) ==
    IF data = <<>> THEN Ok(<<>>)
    ELSE IF RunLen(data) % 2 # 0 THEN Err("SerializationError")
    ELSE Ok(expand(data, <<>>))

\* poseidon_hash(data, b"COMPRESSION_CHECKSUM"): the hash is kept as the
\* string it was made of, so that equal strings have equal checksums
checksum_of(data) == <<"COMPRESSION_CHECKSUM", data>>

\* the result of compression by an algorithm
compressed_by(algorithm, original_data) ==
    IF algorithm = "None" THEN Ok(original_data)
    ELSE compress_rle(original_data)

\* the result of decompression by an algorithm
decompressed_by(algorithm, compressed_data) ==
    IF algorithm = "None" THEN Ok(compressed_data)
    ELSE decompress_rle(compressed_data)

\* CompressedProof::compress, from the compressed data on
verified_compression(proof, algorithm, compressed_data) ==
    LET decompressed == decompressed_by(algorithm, compressed_data)
    IN  IF ~decompressed.ok THEN decompressed
        ELSE IF decompressed.val # proof.data THEN Err("SerializationError")
        ELSE Ok([original_size |-> RunLen(proof.data),
                 compressed_data |-> compressed_data,
                 algorithm |-> algorithm,
                 checksum |-> checksum_of(proof.data),
                 epoch |-> proof.epoch,
                 version |-> proof.version])

\* CompressedProof::compress
CompressedProof_compress(proof, algorithm) ==
    LET compressed == compressed_by(algorithm, proof.data)
    IN  IF ~compressed.ok THEN compressed
        ELSE verified_compression(proof, algorithm, compressed.val)

\* CompressedProof::decompress, from the decompressed data on
checked_proof(self, decompressed_data) ==
    IF RunLen(decompressed_data) # self.original_size
    THEN Err("SerializationError")
    ELSE IF checksum_of(decompressed_data) # self.checksum
    THEN Err("SerializationError")
    ELSE Ok([data |-> decompressed_data,
             epoch |-> self.epoch,
             version |-> self.version])

\* CompressedProof::decompress
CompressedProof_decompress(self) ==
    LET decompressed == decompressed_by(self.algorithm, self.compressed_data)
    IN  IF ~decompressed.ok THEN decompressed
        ELSE checked_proof(self, decompressed.val)

(* A proof is made (env), compressed (batch) and decompressed; a compressed
   proof also arrives from outside with fields of the sender's choice. *)

CompressionAlgorithm == {"None", "Rle"}

\* the byte strings of the proofs
ProofData ==
    {<<>>, Run(42, 1), Run(0, 254), Run(0, 255), Run(0, 256), Run(0, 510),
     Run(0, 511), Run(255, 255), Run(255, 256), Run(1, 255),
     <<<<1, 3>>, <<2, 2>>, <<3, 1>>, <<4, 4>>>>,
     <<<<5, 256>>, <<255, 1>>, <<5, 1>>>>,
     <<<<2, 1>>, <<0, 2>>, <<255, 300>>, <<0, 1>>>>,
     Run(255, MAX_RLE_DECOMPRESSED_SIZE + 1)}

\* the payloads of the compressed proofs that arrive from outside
Payloads ==
    {<<>>, Run(0, 1), Run(3, 2), <<<<9, 1>>, <<0, 1>>>>,
     <<<<3, 1>>, <<2, 1>>, <<7, 1>>>>,
     Run(255, 2 * ((MAX_RLE_DECOMPRESSED_SIZE \div 255) + 1))}

\* the strings the sender of a compressed proof states the size and the
\* checksum of
Stated == {<<>>, Run(3, 3), Run(255, 255 * ((MAX_RLE_DECOMPRESSED_SIZE \div 255) + 1))}

CompressionInit ==
    /\ env = <<[data |-> <<>>, epoch |-> 0, version |-> 1]>>
    /\ batch = NoEnv
    /\ mgr = NoEnv
    /\ ver = NoEnv
    /\ last = Outcome("default", 0, TRUE, FALSE, "", 0)

\* Proof::new, and a proof of another version (the field is public)
NewProof ==
    /\ \E data \in ProofData, epoch \in {0, 100}, version \in {1, 2} :
           /\ env' = <<[Proof_new(data, epoch) EXCEPT !.version = version]>>
           /\ last' = Outcome("new", epoch, TRUE, FALSE, "", RunLen(data))
    /\ batch' = NoEnv
    /\ UNCHANGED <<mgr, ver>>

\* CompressedProof::compress
Compress ==
    /\ env # NoEnv
    /\ \E algorithm \in CompressionAlgorithm :
           \E r \in {CompressedProof_compress(env[1], algorithm)} :
               /\ batch' = IF r.ok THEN <<r.val>> ELSE NoEnv
               /\ last' = Outcome("compress", algorithm, r.ok, FALSE, r.err,
                                  IF r.ok THEN RunLen(r.val.compressed_data)
                                  ELSE 0)
    /\ UNCHANGED <<env, mgr, ver>>

\* a CompressedProof built from its public fields
Receive ==
    /\ \E compressed_data \in Payloads, algorithm \in CompressionAlgorithm,
          stated \in Stated :
           /\ batch' = <<[original_size |-> RunLen(stated),
                          compressed_data |-> compressed_data,
                          algorithm |-> algorithm,
                          checksum |-> checksum_of(stated),
                          epoch |-> 0,
                          version |-> 1]>>
           /\ last' = Outcome("receive", algorithm, TRUE, FALSE, "",
                              RunLen(compressed_data))
    /\ env' = NoEnv
    /\ UNCHANGED <<mgr, ver>>

\* CompressedProof::decompress
Decompress ==
    /\ batch # NoEnv
    /\ \E r \in {CompressedProof_decompress(batch[1])} :
           last' = Outcome("decompress", batch[1].algorithm, r.ok, r.val,
                           r.err, IF r.ok THEN RunLen(r.val.data) ELSE 0)
    /\ UNCHANGED <<env, batch, mgr, ver>>

CompressionNext ==
    \/ NewProof
    \/ Compress
    \/ Receive
    \/ Decompress

SpecCompression == CompressionInit /\ [][CompressionNext]_vars

-----------------------------------------------------------------------------
(* stark/range_air.rs: the trace of a range proof *)

(* A u64 of this section is kept as its four 16-bit limbs, the low one
   first, so that 2^32 and the numbers above it are values of the model. *)

Limb == 2 ^ 16

\* the u64 whose value is lo + mid * 2^16 + hi * 2^32 + top * 2^48
W(lo, mid, hi, top) == <<lo, mid, hi, top>>

\* a < b on u64
u64_lt(a, b) ==
    \E k \in 1..4 : a[k] < b[k] /\ \A j \in (k + 1)..4 : a[j] = b[j]

\* a >= b on u64
u64_ge(a, b) == ~u64_lt(a, b)

\* the limbs of a - b from limb k on, a >= b
RECURSIVE sub_limbs(_, _, _, _)
sub_limbs(a, b, k, borrow) ==
    IF k > 4 THEN <<>>
    ELSE LET d == a[k] - b[k] - borrow
         IN  IF d < 0 THEN <<d + Limb>> \o sub_limbs(a, b, k + 1, 1)
             ELSE <<d>> \o sub_limbs(a, b, k + 1, 0)

\* a - b on u64, a >= b
u64_sub(a, b) == sub_limbs(a, b, 1, 0)

\* (x >> i) & 1
bit_of(x, i) == (x[(i \div 16) + 1] \div (2 ^ (i % 16))) % 2

\* x >> 32
shr32(x) == <<x[3], x[4], 0, 0>>

RANGE_BITS == 32

\* 1u64 << RANGE_BITS
MAX_RANGE_VALUE ==
    [k \in 1..4 |-> IF k = (RANGE_BITS \div 16) + 1
                    THEN 2 ^ (RANGE_BITS % 16) ELSE 0]

\* the row [bits..., value, threshold, diff], twice
range_rows(value, threshold, diff) ==
    LET bits == [i \in 1..RANGE_BITS |-> bit_of(diff, i - 1)]
        row == bits \o <<value, threshold, diff>>
    IN  Ok([values |-> row \o row, width |-> RANGE_BITS + 3])

\* build_range_proof_trace from the subtraction on
range_trace_of(value, threshold, diff) ==
    IF u64_ge(diff, MAX_RANGE_VALUE) THEN Err("InvalidWitness")
    ELSE IF shr32(diff) # W(0, 0, 0, 0) THEN Err("panic")
    ELSE range_rows(value, threshold, diff)

\* build_range_proof_trace without its check of the value
build_range_proof_trace_any_value(value, threshold) ==
    IF u64_ge(threshold, MAX_RANGE_VALUE) THEN Err("InvalidWitness")
    ELSE IF u64_lt(value, threshold) THEN Err("InvalidWitness")
    ELSE range_trace_of(value, threshold, u64_sub(value, threshold))

\* trace_builder::build_range_proof_trace
build_range_proof_trace(value, threshold) ==
    IF u64_ge(value, MAX_RANGE_VALUE) THEN Err("InvalidWitness")
    ELSE IF u64_ge(threshold, MAX_RANGE_VALUE) THEN Err("InvalidWitness")
    ELSE IF u64_lt(value, threshold) THEN Err("InvalidWitness")
    ELSE range_trace_of(value, threshold, u64_sub(value, threshold))

\* Matrix::height
height(trace) == Len(trace.values) \div trace.width

\* RealStarkProver::prove_range, which stark/real_stark.rs does not hold: it
\* builds the trace of the range AIR and proves it, and the proof (opaque) is
\* a proof of that trace
RealStarkProver_prove_range(value, threshold) ==
    LET trace == build_range_proof_trace(value, threshold)
    IN  IF ~trace.ok THEN trace
        ELSE Ok([air_type |-> "Range",
                 num_rows |-> height(trace.val),
                 inner |-> trace.val])

\* IntegratedProver::prove_range on a prover whose manager is m.  The
\* commitment and the binding hash of the envelope are made of the public
\* values of the proof, which RealStarkProver::prove_range chooses; they are
\* left out of the envelope.
IntegratedProver_prove_range(m, value, threshold, pv_salt) ==
    LET stark_proof == RealStarkProver_prove_range(value, threshold)
    IN  IF ~stark_proof.ok THEN stark_proof
        ELSE Ok([stark_proof |-> stark_proof.val,
                 epoch |-> m.current_epoch,
                 params |-> m.current_params,
                 pv_salt |-> <<pv_salt>>])

(* A prover (mgr) is asked for range proofs, and the trace builder is called
   on its own; last holds what the call returned. *)

\* the values and thresholds: small ones, those of the tests, and the
\* neighbours of 2^32 and of 2^64
RangeValues ==
    {W(0, 0, 0, 0), W(1, 0, 0, 0), W(15, 0, 0, 0), W(18, 0, 0, 0),
     W(25, 0, 0, 0), W(500, 0, 0, 0), W(1000, 0, 0, 0), W(0, 1, 0, 0),
     W(Limb - 1, Limb - 1, 0, 0), W(0, 0, 1, 0), W(1, 0, 1, 0),
     W(1000, 0, 1, 0), W(0, 0, 0, 1), W(Limb - 1, Limb - 1, Limb - 1, Limb - 1)}

RangeInit ==
    /\ \E e \in InitEpochs : mgr = MTDManager_with_epoch(Seed, e)
    /\ env = NoEnv
    /\ batch = NoEnv
    /\ ver = NoEnv
    /\ last = Outcome("new", 0, TRUE, FALSE, "", 0)

\* trace_builder::build_range_proof_trace
BuildRangeProofTrace ==
    /\ \E value \in RangeValues, threshold \in RangeValues :
           \E r \in {build_range_proof_trace(value, threshold)} :
               last' = Outcome("build_range_proof_trace", <<value, threshold>>,
                               r.ok, r.val, r.err,
                               IF r.ok THEN height(r.val) ELSE 0)
    /\ UNCHANGED <<mgr, env, ver, batch>>

\* IntegratedProver::prove_range
ProveRange ==
    /\ \E value \in RangeValues, threshold \in RangeValues :
           \E r \in {IntegratedProver_prove_range(mgr, value, threshold,
                                                  ProveSalt)} :
               last' = Outcome("prove_range", <<value, threshold>>, r.ok,
                               r.val, r.err,
                               IF r.ok THEN r.val.stark_proof.num_rows ELSE 0)
    /\ UNCHANGED <<mgr, env, ver, batch>>

RangeNext ==
    \/ BuildRangeProofTrace
    \/ ProveRange

SpecRange == RangeInit /\ [][RangeNext]_vars

-----------------------------------------------------------------------------
(* utils/hash.rs: poseidon_hash of one string under two domain tags *)

\* the domain tags: short ones, one with a zero byte appended, tags of 64
\* and of 65 bytes that start alike, and two chunks that are equal modulo
\* the order of the field
DomainTags ==
    {B(<<>>),
     B(<<0>>),
     B(<<68, 79, 77, 65, 73, 78, 95, 65>>),
     B(<<68, 79, 77, 65, 73, 78, 95, 66>>),
     B(<<68, 79, 77, 65, 73, 78, 95, 65, 0>>),
     B([i \in 1..64 |-> 1]),
     B([i \in 1..65 |-> 1]),
     B([i \in 1..65 |-> IF i = 65 THEN 2 ELSE 1]),
     B(<<255, 255, 255, 255, 255, 255, 255, 255>>),
     B(<<254, 255, 255, 255, 0, 0, 0, 0>>)}

\* the strings hashed
HashData == {B(<<>>), B(<<1>>), B(<<1, 2, 3>>), B([i \in 1..65 |-> 9])}

HashInit ==
    /\ mgr = NoEnv
    /\ env = NoEnv
    /\ ver = NoEnv
    /\ batch = NoEnv
    /\ last = Outcome("default", <<>>, TRUE, <<>>, "", 0)

\* poseidon_hash(data, d1) and poseidon_hash(data, d2)
HashUnderTwoTags ==
    /\ \E data \in HashData, d1 \in DomainTags, d2 \in DomainTags :
           last' = Outcome("poseidon_hash", <<data, d1, d2>>, TRUE,
                           <<poseidon_hash(data, d1), poseidon_hash(data, d2)>>,
                           "", ByteLen(data))
    /\ UNCHANGED <<mgr, env, ver, batch>>

HashNext == HashUnderTwoTags

SpecHash == HashInit /\ [][HashNext]_vars

-----------------------------------------------------------------------------
(* stark/integrated.rs: verify_with_params, and the prover beside the
   envelopes and verifiers it has issued *)

\* IntegratedVerifier::verify_with_params; v is the verifier, whose STARK
\* verifier is the only field the method reads
verify_with_params(v, proof, expected_epoch, expected_params) ==
    IF proof.epoch # expected_epoch
    THEN [ok |-> TRUE, val |-> FALSE, stage |-> 1]
    ELSE IF \/ proof.params.domain_separator # expected_params.domain_separator
            \/ proof.params.fri_seed # expected_params.fri_seed
            \/ proof.params.salt # expected_params.salt
    THEN [ok |-> TRUE, val |-> FALSE, stage |-> 2]
    ELSE IF ~constant_time_eq_fixed(
                 proof.binding_hash,
                 compute_binding_hash(proof.stark_proof, proof.params,
                                      proof.committed_public_values))
    THEN [ok |-> TRUE, val |-> FALSE, stage |-> 3]
    ELSE IF ~verify_by_type(proof.stark_proof)
    THEN [ok |-> TRUE, val |-> FALSE, stage |-> 4]
    ELSE [ok |-> TRUE, val |-> TRUE, stage |-> 0]

\* an envelope with its binding hash computed anew over its fields, which
\* anyone can do: the hash has no secret input
rebound(proof) ==
    [proof EXCEPT !.binding_hash =
        compute_binding_hash(proof.stark_proof, proof.params,
                             proof.committed_public_values)]

\* the envelopes a prover of the model's seed issues at epoch e
IssuedAt(e) ==
    {IntegratedProver_prove_fibonacci(MTDManager_with_epoch(Seed, e), n,
                                      ProveSalt) : n \in NumRows}

\* an envelope as a prover of the model issued it, with or without its salt
Issued(proof) ==
    \E e \in 0..MaxProverEpoch :
        \E p \in IssuedAt(e) : proof \in {p, erase_salt(p)}

\* the anchors a caller gives verify_with_params: those of the verifier, and
\* those the envelope itself carries
Anchors(v, proof) ==
    {<<v.current_epoch, v.current_params>>, <<proof.epoch, proof.params>>}

VerifyWithParams ==
    /\ Len(env) > 0
    /\ Len(ver) > 0
    /\ \E a \in Anchors(ver[1], env[1]) :
           last' = EnvOutcome("verify_with_params", a,
                              verify_with_params(ver[1], env[1], a[1], a[2]))
    /\ UNCHANGED <<mgr, env, ver, batch>>

\* IntegratedProver::prove_range; the envelope is returned to the caller
ProveRangeEnvelope ==
    /\ \E value \in {W(1000, 0, 0, 0), W(0, 0, 1, 0)} :
           \E r \in {IntegratedProver_prove_range(mgr, value, W(500, 0, 0, 0),
                                                  ProveSalt)} :
               last' = Outcome("prove_range", value, r.ok, FALSE, 0, 0)
    /\ UNCHANGED <<mgr, env, ver, batch>>

\* the epoch of the envelope's parameters is replaced and the binding hash
\* computed anew
ReplaceParamsEpoch ==
    /\ Len(env) > 0
    /\ Issued(env[1])
    /\ \E e \in 0..MaxProverEpoch :
           /\ e # env[1].params.epoch
           /\ env' = <<rebound([env[1] EXCEPT !.params.epoch = e])>>
    /\ last' = Outcome("replace_params_epoch", 0, TRUE, FALSE, 0, 0)
    /\ UNCHANGED <<mgr, ver, batch>>

\* the commitments that replace the one of an envelope: the commitment to
\* other values, and the envelope's own with another value_count
OtherCommitments(proof) ==
    {commit(compute_public_values(8), FakeSalt),
     [proof.committed_public_values EXCEPT !.value_count = @ + 1]}

\* the commitment of the envelope is replaced and the binding hash computed
\* anew
ReplaceCommitment ==
    /\ Len(env) > 0
    /\ Issued(env[1])
    /\ \E c \in OtherCommitments(env[1]) :
           env' = <<rebound([env[1] EXCEPT !.committed_public_values = c])>>
    /\ last' = Outcome("replace_commitment", 0, TRUE, FALSE, 0, 0)
    /\ UNCHANGED <<mgr, ver, batch>>

\* proving, lending verifiers, advancing, verifying in the three ways,
\* erasing the salt, and replacing fields of the envelope
AnchorNext ==
    \/ ProveFibonacci
    \/ ProveRangeEnvelope
    \/ AdvanceEpoch
    \/ GetVerifier
    \/ Verify
    \/ VerifyWithSalt
    \/ VerifyWithParams
    \/ EraseSalt
    \/ ReplaceParamsEpoch
    \/ ReplaceCommitment

SpecAnchor == EnvInit /\ [][AnchorNext]_vars

-----------------------------------------------------------------------------
(* batching/merkle.rs: the roots of two leaf lists *)

\* the longest leaf list of the comparison
MaxRootLeaves == 4

\* the non-empty lists of at most MaxRootLeaves leaves over two digests
RootLists ==
    UNION {[1..n -> {DigestLeaf(1), DigestLeaf(2)}] : n \in 1..MaxRootLeaves}

RootsInit ==
    /\ mgr = NoEnv
    /\ ver = NoEnv
    /\ env = <<MerkleTree_new(<<DigestLeaf(1)>>).val>>
    /\ batch = <<MerkleTree_new(<<DigestLeaf(1)>>).val>>
    /\ last = Outcome("new", 1, TRUE, FALSE, "", 1)

\* MerkleTree::new of the first tree
NewTree ==
    /\ \E leaves \in RootLists :
           \E tree \in {MerkleTree_new(leaves)} :
               /\ tree.ok
               /\ env' = <<tree.val>>
               /\ last' = Outcome("new", 1, tree.ok, FALSE, "", Len(leaves))
    /\ UNCHANGED <<mgr, ver, batch>>

\* MerkleTree::new of the second tree
NewOtherTree ==
    /\ \E leaves \in RootLists :
           \E tree \in {MerkleTree_new(leaves)} :
               /\ tree.ok
               /\ batch' = <<tree.val>>
               /\ last' = Outcome("new", 2, tree.ok, FALSE, "", Len(leaves))
    /\ UNCHANGED <<mgr, ver, env>>

RootsNext ==
    \/ NewTree
    \/ NewOtherTree

SpecRoots == RootsInit /\ [][RootsNext]_vars

-----------------------------------------------------------------------------
(* Properties of the MTDManager *)

\* a sync() call that read a wall-clock epoch lower than the manager's
SyncBehind == last'.op = "sync" /\ last'.arg < mgr.current_epoch

\* C4 (as stated): every sync() with the wall-clock epoch lower than the
\* current epoch returns an error and leaves the current epoch, the current
\* params and the cache unchanged, whatever the auto_advance flag is.
SyncBehindAlwaysFails ==
    [][SyncBehind =>
          /\ ~last'.ok
          /\ mgr'.current_epoch = mgr.current_epoch
          /\ mgr'.current_params = mgr.current_params
          /\ mgr'.cache = mgr.cache]_vars

\* C4 (amended): every sync() with the wall-clock epoch lower than the
\* current epoch leaves the current epoch, the current params and the cache
\* unchanged; it returns an error exactly when auto_advance is enabled, and
\* Ok(false) when auto_advance is disabled.
SyncBehindFailsIfAutoAdvance ==
    [][SyncBehind =>
          /\ mgr' = mgr
          /\ last'.ok = ~mgr.auto_advance
          /\ ~last'.val]_vars

\* sync() has just refused a clock that is behind a manager with a filled cache
SyncBehindRefused ==
    /\ last.op = "sync"
    /\ last.arg < mgr.current_epoch
    /\ ~last.ok
    /\ mgr.auto_advance
    /\ Len(mgr.cache) > 0

\* C5: along every sequence of manager operations the current epoch never
\* decreases, and each successful advance() raises it by exactly 1 and sets
\* the current params to the parameters derived from (seed, new epoch).
EpochNeverDecreases ==
    [][/\ mgr'.current_epoch >= mgr.current_epoch
       /\ (last'.op = "advance" /\ last'.ok) =>
              /\ mgr'.current_epoch = mgr.current_epoch + 1
              /\ mgr'.current_params =
                     WarpingParams_generate(mgr.seed, mgr.current_epoch + 1)]_vars

\* advance() has just succeeded on a manager that had moved before
AdvancedTwice ==
    /\ last.op = "advance"
    /\ last.ok
    /\ mgr.current_epoch = last.arg + 1
    /\ Len(mgr.cache) > 1

\* a get_params call that finds its epoch in the cache
CacheHit(m, epoch) == epoch # m.current_epoch /\ cache_find(m.cache, epoch) # 0

\* a get_params call that has to generate
CacheMiss(m, epoch) == epoch # m.current_epoch /\ cache_find(m.cache, epoch) = 0

\* what an insertion of params is to do to a FIFO cache
FifoInsert(cache, params) ==
    IF Len(cache) = MTD_PARAM_CACHE_SIZE
    THEN Tail(cache) \o <<params>>
    ELSE cache \o <<params>>

\* C6: the cache never holds more than MTD_PARAM_CACHE_SIZE entries; the
\* entries stay in insertion order, an insertion at capacity (a get_params
\* miss, an advance) removes the entry inserted earliest, and a cache hit
\* leaves the cache as it is.
CacheIsBoundedFifo ==
    [][/\ Len(mgr'.cache) <= MTD_PARAM_CACHE_SIZE
       /\ (last'.op = "get_params" /\ CacheMiss(mgr, last'.arg)) =>
              mgr'.cache = FifoInsert(mgr.cache, last'.ret)
       /\ (last'.op = "advance" /\ last'.ok) =>
              mgr'.cache = FifoInsert(mgr.cache, mgr.current_params)
       /\ (last'.op = "get_params" /\ CacheHit(mgr, last'.arg)) =>
              mgr'.cache = mgr.cache
       /\ \/ mgr'.cache = mgr.cache
          \/ mgr'.cache = <<>>
          \/ /\ Len(mgr'.cache) > 0
             /\ mgr'.cache =
                    FifoInsert(mgr.cache, mgr'.cache[Len(mgr'.cache)])]_vars

\* advance() has just inserted into a full cache
EvictedAtCapacity ==
    /\ last.op = "advance"
    /\ last.ok
    /\ last.size = MTD_PARAM_CACHE_SIZE
    /\ Len(mgr.cache) = MTD_PARAM_CACHE_SIZE
    /\ mgr.cache[MTD_PARAM_CACHE_SIZE].epoch = last.arg

-----------------------------------------------------------------------------
(* Properties of the integrated envelope *)

\* C1: an envelope as the prover produced it at epoch e is rejected, with
\* Ok(false), by every verifier bound to another epoch: one constructed for
\* that epoch, or one obtained from the prover after advance_epoch().
CrossEpochRejected ==
    (/\ Len(env) > 0
     /\ Len(ver) > 0
     /\ Intact(env[1])
     /\ env[1].epoch # ver[1].current_epoch) =>
        /\ verify(ver[1], env[1]).ok
        /\ ~verify(ver[1], env[1]).val
        /\ last.op = "verify" => (last.ok /\ ~last.val)

\* the verifier of the advanced prover has just rejected an envelope the
\* prover issued before the advance
StaleEnvelopeRejected ==
    /\ last.op = "verify"
    /\ ~last.val
    /\ Intact(env[1])
    /\ env[1].epoch < mgr.current_epoch
    /\ ver[1] = get_verifier(mgr)

\* a step that changes one byte of binding_hash, one byte of the commitment
\* or one entry of stark_proof.public_values
TamperStep ==
    last'.op \in {"tamper_binding_hash", "tamper_commitment",
                  "tamper_public_value"}

\* C2: when verify accepts an envelope, it returns false for the envelope
\* with a single byte of binding_hash changed, a single byte of the commitment
\* changed, or a single public value replaced by another u64.
SingleTamperRejected ==
    [][(/\ TamperStep
        /\ Len(ver) > 0
        /\ verify(ver[1], env[1]).val) =>
           /\ env'[1] # env[1]
           /\ verify(ver[1], env'[1]).ok
           /\ ~verify(ver[1], env'[1]).val]_vars

\* the verifier that accepted the envelope rejects it with its first public
\* value 0 replaced by ORDER, the other u64 of the field element 0
PlusOrderRejected ==
    /\ last.op = "verify"
    /\ ~last.val
    /\ env[1].epoch = ver[1].current_epoch
    /\ env[1].params = ver[1].current_params
    /\ env[1].stark_proof.public_values[1] = PlusOrder(U64(0))

\* C3: verify checks (1) the epoch, (2) the params, (3) the binding hash and
\* (4) the STARK proof in this order and returns at the first check that
\* fails: Ok(false), never an error, when it is one of the checks 1-3, and
\* Ok(true) only when all four checks pass.
VerifyChecksInOrder ==
    last.op = "verify" =>
       LET c1 == env[1].epoch = ver[1].current_epoch
           c2 == env[1].params = ver[1].current_params
           c3 == env[1].binding_hash =
                     compute_binding_hash(env[1].stark_proof, env[1].params,
                                          env[1].committed_public_values)
           c4 == verify_by_type(env[1].stark_proof)
       IN  /\ ~c1 => (last.ok /\ ~last.val /\ last.ret = 1)
           /\ (c1 /\ ~c2) => (last.ok /\ ~last.val /\ last.ret = 2)
           /\ (c1 /\ c2 /\ ~c3) => (last.ok /\ ~last.val /\ last.ret = 3)
           /\ (c1 /\ c2 /\ c3 /\ ~c4) => (~last.val /\ last.ret = 4)
           /\ (last.ok /\ last.val) <=> (c1 /\ c2 /\ c3 /\ c4)

\* verify has just returned at the params check: the epoch matches, the
\* params do not, and the binding hash is wrong as well
StoppedAtParams ==
    /\ last.op = "verify"
    /\ last.ret = 2
    /\ env[1].epoch = ver[1].current_epoch
    /\ ~Intact(env[1])

EraseSaltFrame ==
    [][last'.op = "erase_salt" =>
          /\ ~has_salt(env'[1])
          /\ env'[1].stark_proof = env[1].stark_proof
          /\ env'[1].epoch = env[1].epoch
          /\ env'[1].params = env[1].params
          /\ env'[1].binding_hash = env[1].binding_hash
          /\ env'[1].committed_public_values = env[1].committed_public_values
          /\ erase_salt(env'[1]) = env'[1]
          /\ ~has_salt(env[1]) => env'[1] = env[1]
          /\ Len(ver) > 0 => verify(ver[1], env'[1]) = verify(ver[1], env[1])
          /\ mgr' = mgr
          /\ ver' = ver]_vars

\* erase_salt() has just run a second time on an envelope that its verifier
\* accepts
ErasedTwiceStillValid ==
    /\ last.op = "erase_salt"
    /\ last.arg = 1
    /\ ~has_salt(env[1])
    /\ Len(ver) > 0
    /\ verify(ver[1], env[1]).val

-----------------------------------------------------------------------------
(* Properties of batch verification *)

\* the BatchVerifier is the one of the batch's prover at the batch's epoch
OwnVerifier ==
    ver[1] = MTDProver_get_verifier(MTDManager_with_epoch(Seed, batch[1].epoch))

\* verify_batch has just run on a batch with the proofs create_proof_batch
\* was given, with the public inputs they were proved with, by the verifier
\* of their epoch
VerifiedAsProved ==
    /\ last.op = "verify_batch"
    /\ batch[1].proofs = proofs_at(batch[1].epoch, Len(batch[1].proofs))
    /\ last.arg = Inputs(Len(batch[1].proofs))
    /\ OwnVerifier

\* C9: verify_batch returns true for a batch built by create_proof_batch
\* from the proofs the batch prover produced at the verifier's epoch, with
\* the matching public inputs, and false once merkle_root holds any value
\* other than the root recomputed over hash_leaf(proof_i.data).
RootDecidesBatch ==
    VerifiedAsProved =>
        /\ last.ok
        /\ last.val <=> (batch[1].merkle_root
                             = compute_merkle_root(batch[1].proofs).val)

\* verify_batch has just returned false for a batch of three proofs whose
\* merkle_root was overwritten with [99; 32]
TamperedRootRefused ==
    /\ VerifiedAsProved
    /\ Len(batch[1].proofs) = 3
    /\ batch[1].merkle_root = Nines
    /\ last.ok
    /\ ~last.val

\* verify_batch has just returned true for a batch of three proofs
BatchAccepted ==
    /\ VerifiedAsProved
    /\ Len(batch[1].proofs) = 3
    /\ last.ok
    /\ last.val

\* the epoch of the i-th proof of the batch differs from the batch epoch
OffBatchEpoch(i) == batch[1].proofs[i].epoch # batch[1].epoch

\* the epoch of the i-th proof of the batch differs from the verifier's
OffVerifierEpoch(i) == batch[1].proofs[i].epoch # ver[1].current_epoch

SomeOffBatchEpoch == \E i \in 1..Len(batch[1].proofs) : OffBatchEpoch(i)

RootAsComputed ==
    batch[1].merkle_root = compute_merkle_root(batch[1].proofs).val

\* verify_batch has just run with as many public inputs as proofs
BatchCall ==
    /\ last.op = "verify_batch"
    /\ Len(last.arg) = Len(batch[1].proofs)

\* verify_single_in_batch has just run with an index inside the batch
SingleCall ==
    /\ last.op = "verify_single_in_batch"
    /\ last.arg[1] < Len(batch[1].proofs)

ReturnedFalse == last.ok /\ ~last.val

ReturnedErr(kind) == ~last.ok /\ last.ret = kind

\* C10 (as stated): at verify_batch, verify_single_in_batch and the
\* Verifier::verify they delegate to, a well-formed proof that is rejected
\* because of its epoch (different from the batch epoch or from the
\* verifier's epoch) yields the boolean false, not an error.
EpochRejectionIsFalse ==
    /\ (/\ BatchCall
        /\ RootAsComputed
        /\ SomeOffBatchEpoch \/ batch[1].epoch # ver[1].current_epoch)
           => ReturnedFalse
    /\ (/\ SingleCall
        /\ OffBatchEpoch(last.arg[1] + 1) \/ OffVerifierEpoch(last.arg[1] + 1))
           => ReturnedFalse
    /\ (/\ last.op = "verify_proof"
        /\ OffVerifierEpoch(last.arg[1] + 1))
           => ReturnedFalse

\* C10 (amended): such a rejection is an error, with one exception.
\* verify_batch returns Err(InvalidEpoch) when a proof's epoch differs from
\* the batch epoch; Verifier::verify returns Err(InvalidProof) when the
\* proof's epoch differs from the verifier's, and verify_batch and
\* verify_single_in_batch pass that error on; only verify_single_in_batch
\* returns the boolean false, when the epoch of the proof at the index
\* differs from the batch epoch.
EpochRejectionKinds ==
    /\ (BatchCall /\ SomeOffBatchEpoch) => ReturnedErr("InvalidEpoch")
    /\ (/\ BatchCall
        /\ ~SomeOffBatchEpoch
        /\ RootAsComputed
        /\ batch[1].epoch # ver[1].current_epoch)
           => ReturnedErr("InvalidProof")
    /\ (SingleCall /\ OffBatchEpoch(last.arg[1] + 1)) => ReturnedFalse
    /\ (/\ SingleCall
        /\ ~OffBatchEpoch(last.arg[1] + 1)
        /\ OffVerifierEpoch(last.arg[1] + 1))
           => ReturnedErr("InvalidProof")
    /\ (/\ last.op = "verify_proof"
        /\ OffVerifierEpoch(last.arg[1] + 1))
           => ReturnedErr("InvalidProof")

\* verify_batch has just refused, with InvalidEpoch, a batch of three proofs
\* with a proof of another epoch in it, at the verifier of the batch epoch
MixedBatchIsError ==
    /\ BatchCall
    /\ Len(batch[1].proofs) = 3
    /\ SomeOffBatchEpoch
    /\ RootAsComputed
    /\ OwnVerifier
    /\ ReturnedErr("InvalidEpoch")

-----------------------------------------------------------------------------
(* Properties of the batch prover API *)

\* the last call was prove_batch or create_proof_batch
ProverCall == last.op \in {"prove_batch", "create_proof_batch"}

\* C11: the batch prover API rejects every empty batch, every batch whose
\* witness and public-input counts differ and every batch of more than
\* MAX_BATCH_SIZE items: neither prove_batch nor create_proof_batch returns
\* a result of 0 proofs or of more than MAX_BATCH_SIZE proofs.
BatchSizeWithinLimit ==
    /\ ProverCall /\ last.ok => last.size \in 1..MAX_BATCH_SIZE
    /\ last.op = "prove_batch" /\ last.arg[1] # last.arg[2] => ~last.ok

\* create_proof_batch returned a batch of MAX_BATCH_SIZE + 1 proofs
OversizedBatchCreated ==
    /\ last.op = "create_proof_batch"
    /\ last.ok
    /\ last.size = MAX_BATCH_SIZE + 1

-----------------------------------------------------------------------------
(* Properties of the on-chain verifier *)

\* the last call was OnchainVerifier::verify and it returned Valid
VerifySaidValid == last.op = "verify" /\ last.ret = <<"Valid">>

\* C12: OnchainVerifier::verify returns Valid for a LightweightProof only if
\* the proof's commitment equals its merkle_root or its merkle_root is all
\* zero bytes.
CommitmentCoupledToRoot ==
    VerifySaidValid =>
        \/ env[1].commitment = env[1].merkle_root
        \/ env[1].merkle_root = Zeros(32)

\* verify returned Valid for a proof whose merkle_root is neither its
\* commitment nor zero
UncoupledProofValid ==
    /\ VerifySaidValid
    /\ env[1].commitment # env[1].merkle_root
    /\ env[1].merkle_root # Zeros(32)

\* the last call verified a proof or a batch proof
OnchainCall == last.op \in {"verify", "verify_batch"}

\* the epoch p of the proof of the last call is in the window of the verifier:
\* p <= e and e - p <= k over the integers
InWindow ==
    /\ last.arg <= ver.current_epoch
    /\ ver.current_epoch - last.arg <= ver.epoch_tolerance

\* C13: an OnchainVerifier with current epoch e and tolerance k reports Valid,
\* from verify or verify_batch, only for proofs whose epoch p satisfies p <= e
\* and e - p <= k; every proof of a future epoch or of an epoch older than
\* e - k gets InvalidEpoch, whatever e, k and p are, k > e included.
EpochWindow ==
    OnchainCall =>
        /\ last.ret = <<"Valid">> => InWindow
        /\ ~InWindow =>
               last.ret = <<"InvalidEpoch", ver.current_epoch, last.arg>>

\* a tolerance larger than the current epoch: an old proof is Valid and a
\* future one is not
ToleranceAboveEpoch ==
    /\ OnchainCall
    /\ ver.epoch_tolerance > ver.current_epoch
    /\ last.arg < ver.current_epoch
    /\ last.ret = <<"Valid">>

-----------------------------------------------------------------------------
(* Properties of the commitment to public values *)

\* C14: for all lists values, values' of u64 and all salts salt, salt',
\* commit(values, salt).verify(values', salt') is true if and only if
\* values = values' and salt = salt'.
CommitmentBinding ==
    last.op = "verify" =>
        (last.val <=> last.arg = <<env[1].values, env[1].salt>>)

\* verify returned true for values other than those committed to
OtherValuesVerified ==
    /\ last.op = "verify"
    /\ last.val
    /\ last.arg[1] # env[1].values

-----------------------------------------------------------------------------
(* Properties of the Merkle tree *)

\* C15: for every non-empty list of N leaves, N odd or even, N = 1 included,
\* and every index i < N, the path of get_proof(i) verifies leaf_i, against
\* its own root and against the root of the tree, and verifies no x that
\* differs from leaf_i in a single byte.
MerkleRoundTrip ==
    /\ last.op = "verify" => (last.val <=> last.arg = path_leaf)
    /\ last.op = "verify_against" /\ last.arg = <<path_leaf, batch[1].root>>
           => last.val

\* the path of the last leaf of a tree of three leaves, whose sibling is the
\* leaf itself, refused a leaf with one byte changed
OddLeafChangeRefused ==
    /\ last.op = "verify"
    /\ ~last.val
    /\ Len(batch[1].leaves) = 3
    /\ env[1].leaf_index = 2
    /\ env[1].siblings[1] = path_leaf

-----------------------------------------------------------------------------
(* Properties of epochs and timestamps *)

\* C16: every Epoch value v satisfies 0 <= v <= MAX_EPOCH: Epoch::new(v)
\* returns no Epoch when v > MAX_EPOCH, and no other constructor or
\* operation (from_bytes, from_timestamp, next, prev, advance) yields an
\* Epoch above MAX_EPOCH.
EpochWithinMax == env[1] \in 0..TS_MAX_EPOCH

\* Epoch::from_bytes returned an Epoch above MAX_EPOCH
ParsedEpochAboveMax ==
    /\ last.op = "from_bytes"
    /\ env[1] > TS_MAX_EPOCH

\* the last call was validate_timestamp on a manager at a valid epoch
ValidatedAtValidEpoch ==
    /\ last.op = "validate_timestamp"
    /\ mgr.current_epoch \in 0..TS_MAX_EPOCH

\* the timestamp of the last call is in the window of the manager's epoch v,
\* v * 3600 - 300 <= t <= (v + 1) * 3600 - 1 + 300 over the integers
InTimestampWindow ==
    /\ (mgr.current_epoch * EPOCH_DURATION_SECS) - TIMESTAMP_TOLERANCE_SECS
           <= last.arg
    /\ last.arg <= ((mgr.current_epoch + 1) * EPOCH_DURATION_SECS) - 1
                       + TIMESTAMP_TOLERANCE_SECS

\* C17: for every manager at a valid epoch v and every u64 timestamp t,
\* validate_timestamp(t) returns true if and only if
\* v * 3600 - 300 <= t <= (v + 1) * 3600 - 1 + 300 over the integers, and the
\* call never overflows or panics.
TimestampWindowExact ==
    ValidatedAtValidEpoch => last.ok /\ (last.val <=> InTimestampWindow)

\* a build without overflow checks accepted a timestamp outside the window
WrappedWindowAccepted ==
    /\ ValidatedAtValidEpoch
    /\ ~ver.overflow_checks
    /\ last.val
    /\ ~InTimestampWindow

-----------------------------------------------------------------------------
(* Properties of the compression *)

\* the last call was a decompress that returned a proof
Decompressed == last.op = "decompress" /\ last.ok

\* C18: CompressedProof::decompress never produces an output longer than
\* 10 MiB: every payload whose expansion would exceed that length is rejected.
DecompressedWithinCap == Decompressed => last.size <= MAX_RLE_DECOMPRESSED_SIZE

\* decompress expanded an RLE payload it received into more than 10 MiB
OversizedExpansionReturned ==
    /\ Decompressed
    /\ env = NoEnv
    /\ batch[1].algorithm = "Rle"
    /\ RunLen(batch[1].compressed_data) < MAX_RLE_DECOMPRESSED_SIZE
    /\ last.size > MAX_RLE_DECOMPRESSED_SIZE

\* C19: for every proof byte string x and each algorithm,
\* CompressedProof::compress succeeds, and decompress of its result returns a
\* proof whose data, epoch and version are those of the original.
CompressionRoundTrip ==
    /\ last.op = "compress" => last.ok
    /\ (last.op = "decompress" /\ env # NoEnv) => last.ok /\ last.val = env[1]

\* a string with a run of 256 equal bytes went through the RLE codec and back
SplitRunRestored ==
    /\ Decompressed
    /\ env # NoEnv
    /\ batch[1].algorithm = "Rle"
    /\ \E i \in 1..Len(env[1].data) : env[1].data[i][2] = 256
    /\ last.val.data = env[1].data
    /\ last.size > RunLen(batch[1].compressed_data)

-----------------------------------------------------------------------------
(* Properties of the range proof *)

\* the last call was build_range_proof_trace or prove_range
RangeCall == last.op \in {"build_range_proof_trace", "prove_range"}

\* x >= 2^32: a bit above the low 32 is set
AtLeastTwoPow32(x) == x[3] # 0 \/ x[4] # 0

\* C20: build_range_proof_trace(value, threshold), and hence prove_range,
\* returns an error if and only if value >= 2^32 or threshold >= 2^32 or
\* value < threshold; (2^32 - 1, 0) succeeds and (2^32, 0) fails.
RangeErrorIff ==
    RangeCall =>
        /\ last.ret # "panic"
        /\ ~last.ok <=> \/ AtLeastTwoPow32(last.arg[1])
                        \/ AtLeastTwoPow32(last.arg[2])
                        \/ u64_lt(last.arg[1], last.arg[2])
        /\ last.arg = <<W(Limb - 1, Limb - 1, 0, 0), W(0, 0, 0, 0)>> => last.ok
        /\ last.arg = <<W(0, 0, 1, 0), W(0, 0, 0, 0)>> => ~last.ok

\* the trace of (2^32 - 1, 0) was built: two rows whose 32 bits are all set
BoundaryTraceBuilt ==
    /\ last.op = "build_range_proof_trace"
    /\ last.arg = <<W(Limb - 1, Limb - 1, 0, 0), W(0, 0, 0, 0)>>
    /\ last.ok
    /\ last.size = 2
    /\ \A i \in 1..RANGE_BITS : last.val.values[i] = 1

-----------------------------------------------------------------------------
(* Properties of the hash *)

\* C21: for every byte string data and all domain tags d1 # d2,
\* poseidon_hash(data, d1) # poseidon_hash(data, d2), the permutation having
\* no collisions.
DomainSeparation ==
    (last.op = "poseidon_hash" /\ last.arg[2] # last.arg[3])
        => last.val[1] # last.val[2]

\* a tag and the same tag with a zero byte appended gave the same hash
PaddedTagSameHash ==
    /\ last.op = "poseidon_hash"
    /\ last.arg[3] = last.arg[2] \o B(<<0>>)
    /\ last.val[1] = last.val[2]

-----------------------------------------------------------------------------
(* Properties of the prover, its envelopes and its verifiers *)

\* the calls that read the prover, an envelope or a verifier
ReadingCalls ==
    {"prove_fibonacci", "prove_range", "get_verifier", "verify",
     "verify_with_salt", "verify_with_params", "erase_salt"}

\* the verifier was lent at epoch e and the envelope issued at e, with or
\* without its salt
LentAndIssuedAt(e) ==
    /\ Len(ver) > 0
    /\ Len(env) > 0
    /\ ver[1] = get_verifier(MTDManager_with_epoch(Seed, e))
    /\ \E p \in IssuedAt(e) : env[1] \in {p, erase_salt(p)}

VerifyWithOwnAnchorsIsVerify ==
    (/\ last.op = "verify_with_params"
     /\ last.arg = <<ver[1].current_epoch, ver[1].current_params>>)
        => last.val = verify(ver[1], env[1]).val

\* verify_with_params accepted, with the verifier's anchors, an envelope
\* whose parameters carry another epoch
ForeignParamsEpochAccepted ==
    /\ last.op = "verify_with_params"
    /\ last.arg = <<ver[1].current_epoch, ver[1].current_params>>
    /\ last.val
    /\ env[1].params.epoch # ver[1].current_epoch
    /\ ~verify(ver[1], env[1]).val

\* C24: verify accepts an envelope only if its committed_public_values are
\* the ones the prover computed from the envelope's own public values, even
\* when the binding hash has been recomputed over replaced fields.
AcceptedCommitmentIsProvers ==
    (last.op = "verify" /\ last.val)
        => env[1].committed_public_values =
               commit(env[1].stark_proof.public_values, ProveSalt)

\* verify accepted an envelope whose value_count is not the number of its
\* public values
WrongValueCountAccepted ==
    /\ last.op = "verify"
    /\ last.val
    /\ env[1].committed_public_values.value_count
           # Len(env[1].stark_proof.public_values)

-----------------------------------------------------------------------------
(* Properties of verify_single_in_batch *)

\* the root the batch declares is not the Merkle root of its proofs
DeclaredRootDiffers ==
    /\ Len(batch) > 0
    /\ batch[1].merkle_root # compute_merkle_root(batch[1].proofs).val

\* C25: verify_single_in_batch(batch, i, inputs) returns false whenever
\* batch.merkle_root differs from the Merkle root recomputed over the
\* batch's proofs (it never returns true then).
SingleNeedsDeclaredRoot ==
    (last.op = "verify_single_in_batch" /\ DeclaredRootDiffers) => ~last.val

\* verify_single_in_batch accepted a proof of a batch whose declared root is
\* not the root of its proofs
SingleAcceptedUnderOtherRoot ==
    /\ last.op = "verify_single_in_batch"
    /\ DeclaredRootDiffers
    /\ last.val
    /\ last.arg[1] < Len(batch[1].proofs)

-----------------------------------------------------------------------------
(* Properties of the Merkle root *)

\* C26: two different non-empty leaf lists, of equal or different length,
\* never produce the same Merkle root, the hash having no collisions.
RootDeterminesLeaves ==
    env[1].leaves # batch[1].leaves => env[1].root # batch[1].root

\* a tree of three leaves and the tree of the same leaves with the last one
\* repeated have the same root
RepeatedLastLeafSameRoot ==
    /\ last.op = "new"
    /\ Len(env[1].leaves) = 3
    /\ batch[1].leaves = Append(env[1].leaves, env[1].leaves[3])
    /\ env[1].root = batch[1].root

-----------------------------------------------------------------------------
(* Properties of the parameters an MTDManager holds and returns *)

\* the params the manager holds are the ones derived from its seed: the
\* current params from the current epoch, each cache entry from its own epoch
HoldsGenerated(m) ==
    /\ m.current_params = WarpingParams_generate(m.seed, m.current_epoch)
    /\ \A i \in 1..Len(m.cache) :
           m.cache[i] = WarpingParams_generate(m.seed, m.cache[i].epoch)

\* C27: in every reachable MTDManager state the current params equal
\* WarpingParams::generate(seed, current epoch) and every cache entry p equals
\* generate(seed, p.epoch); hence get_params(e) returns generate(seed, e)
\* after any sequence of get_params / advance / sync / clear_cache calls, and
\* get_params never changes the current epoch or the current params.
ParamsAreGenerated ==
    /\ [](HoldsGenerated(mgr))
    /\ [](last.op = "get_params" =>
              last.ret = WarpingParams_generate(mgr.seed, last.arg))
    /\ [][last'.op = "get_params" =>
              /\ mgr'.current_epoch = mgr.current_epoch
              /\ mgr'.current_params = mgr.current_params
              /\ mgr'.seed = mgr.seed]_vars

\* get_params has just answered from the cache of a manager that has moved:
\* the epoch asked for is not the current one and nothing was inserted
AnsweredFromCache ==
    /\ last.op = "get_params"
    /\ last.arg # mgr.current_epoch
    /\ last.size > 0
    /\ last.size < MTD_PARAM_CACHE_SIZE
    /\ Len(mgr.cache) = last.size
    /\ mgr.current_epoch > ProbeEpoch

-----------------------------------------------------------------------------
(* Properties of MTDManager::sync with the clock ahead of or at the epoch *)

\* the manager after a jump to the wall-clock epoch s
Jumped(m, s) ==
    [m EXCEPT !.current_epoch = s,
              !.current_params = WarpingParams_generate(m.seed, s),
              !.cache = <<>>]

\* C28 (as stated): a sync() that reads a wall-clock epoch s above the current
\* epoch ends with current epoch s, the params derived from (seed, s) and an
\* empty cache and reports a change; one that reads s equal to the current
\* epoch changes nothing and reports no change.
SyncAheadAlwaysJumps ==
    [][last'.op = "sync" =>
          /\ last'.arg > mgr.current_epoch =>
                 (mgr' = Jumped(mgr, last'.arg) /\ last'.ok /\ last'.val)
          /\ last'.arg = mgr.current_epoch =>
                 (mgr' = mgr /\ last'.ok /\ ~last'.val)]_vars

\* C28 (amended): with auto_advance enabled, a sync() that reads a wall-clock
\* epoch s above the current epoch ends with current epoch s, the params
\* derived from (seed, s) and an empty cache and reports a change; with
\* auto_advance disabled it changes nothing and reports no change, whatever
\* the clock says. A sync() that reads s equal to the current epoch changes
\* nothing and reports no change.
SyncAheadJumpsIfAutoAdvance ==
    [][last'.op = "sync" =>
          /\ (last'.arg > mgr.current_epoch /\ mgr.auto_advance) =>
                 (mgr' = Jumped(mgr, last'.arg) /\ last'.ok /\ last'.val)
          /\ (last'.arg > mgr.current_epoch /\ ~mgr.auto_advance) =>
                 (mgr' = mgr /\ last'.ok /\ ~last'.val)
          /\ last'.arg = mgr.current_epoch =>
                 (mgr' = mgr /\ last'.ok /\ ~last'.val)]_vars

\* sync() has just moved an auto-advancing manager to a wall clock ahead of
\* it: a change is reported, the epoch is the clock's and the cache is empty
SyncJumpedAhead ==
    /\ last.op = "sync"
    /\ last.ok
    /\ last.val
    /\ mgr.auto_advance
    /\ mgr.current_epoch = last.arg
    /\ mgr.current_epoch > ProbeEpoch + ClockAhead
    /\ mgr.cache = <<>>

-----------------------------------------------------------------------------
(* Properties of MTDManager::advance at the last epoch *)

\* C29: advance() on a manager whose current epoch is MAX_EPOCH returns an
\* error and leaves the current epoch, the current params and the cache as they
\* were before the call: nothing is pushed to the cache or evicted from it.
AdvanceAtMaxEpochFails ==
    [][(last'.op = "advance" /\ mgr.current_epoch = MAX_EPOCH) =>
          /\ ~last'.ok
          /\ mgr'.current_epoch = mgr.current_epoch
          /\ mgr'.current_params = mgr.current_params
          /\ mgr'.cache = mgr.cache
          /\ mgr' = mgr]_vars

\* advance() has just failed at MAX_EPOCH on a manager whose cache is full,
\* so that a push would have evicted the oldest entry
AdvanceRefusedAtMaxEpoch ==
    /\ last.op = "advance"
    /\ ~last.ok
    /\ last.arg = MAX_EPOCH
    /\ mgr.current_epoch = MAX_EPOCH
    /\ last.size = MTD_PARAM_CACHE_SIZE
    /\ Len(mgr.cache) = MTD_PARAM_CACHE_SIZE

-----------------------------------------------------------------------------
(* Properties of the epochs in the cache of an MTDManager *)

\* two slots of the cache hold params of one epoch
CachedTwice(m) ==
    \E i, j \in 1..Len(m.cache) : i < j /\ m.cache[i].epoch = m.cache[j].epoch

\* a slot of the cache holds params of the current epoch
CurrentIsCached(m) == cache_find(m.cache, m.current_epoch) # 0

\* C30: in every reachable MTDManager state the cache holds at most one entry
\* per epoch and no entry for the current epoch, so that all
\* MTD_PARAM_CACHE_SIZE slots can serve distinct epochs other than the current
\* one.
CacheServesDistinctPastEpochs == ~CachedTwice(mgr) /\ ~CurrentIsCached(mgr)

\* advance() has just saved the params of an epoch the cache already held
\* from an earlier get_params miss
AdvanceCachedEpochTwice ==
    /\ last.op = "advance"
    /\ last.ok
    /\ CachedTwice(mgr)
    /\ cache_find(mgr.cache, last.arg) # 0
    /\ cache_find(mgr.cache, last.arg) < Len(mgr.cache)
    /\ mgr.cache[Len(mgr.cache)].epoch = last.arg

=============================================================================
